---- MODULE Spec2Model ----
(***************************************************************************)
(* A model of the similar-ticket retrieval core of the FreshService        *)
(* helper: the context gatherer (search_context.py) and the retrieval      *)
(* pipeline (search_tickets.py, search_intent.py).                         *)
(*                                                                         *)
(* Python values are tagged records (None, int, str, bool, list), so that  *)
(* truthiness, int(), str() and .strip() are computed as Python computes   *)
(* them.  Distances are Python floats; the model counts them in            *)
(* thousandths (0.55 is 550), which keeps every weight of the scorer an    *)
(* integer.                                                                *)
(***************************************************************************)
EXTENDS Integers, Sequences, FiniteSets, TLC

VARIABLES
    \* ---- gather_ticket_contexts (search_context.py) ----
    g_results,      \* the argument `results`: a sequence of search-result keys
    g_limit,        \* the argument `limit`: None or an int
    g_pc,           \* the caller's position: "call", "collect", "done"
    tickets_to_fetch, \* the scheduled tickets, in input order
    max_workers,    \* the pool's size
    task,           \* per scheduled ticket: the state of its future
    contexts,       \* the list the as_completed loop appends to
    g_return,       \* what gather_ticket_contexts returned
    group_cache,    \* get_group_name's lru_cache: group id -> name
    fault_cap,      \* how many failing responses the API gives at most
    \* ---- retrieve_similar_tickets (search_tickets.py) ----
    r_args,         \* the arguments: top_n, max_distance, intent and flags
    r_coll,         \* the documents of the Chroma collection (store keys)
    r_pc,           \* "call", "query", "fallback", "resolve", "done", "raised"
    r_attempt,      \* the position in `attempts`: 1, 2 or 3
    r_queries,      \* every coll.query issued so far, in order
    r_kept,         \* `kept`, sorted by raw distance
    r_resolved,     \* the prefix of `kept` whose agent is resolved
    r_reranked,     \* what _rerank_results returned
    r_return,       \* what retrieve_similar_tickets returned
    agent_cache,    \* _fetch_agent_name's lru_cache: agent id -> name
    responder_cache, \* _fetch_ticket_responder_id's lru_cache
    \* ---- a call of one of the pure functions ----
    p_pc,           \* "call", "done"
    p_args,         \* the arguments of the call
    p_result,       \* what the call returned
    \* ---- the vocabulary of search_intent.py ----
    categories_json,    \* path -> what the taxonomy file holds now
    known_tokens_cache, \* the lru_cache(maxsize=1) of _load_known_tokens
    load_history        \* which content each load of the vocabulary read

gvars == <<g_results, g_limit, g_pc, tickets_to_fetch, max_workers, task,
           contexts, g_return, group_cache, fault_cap>>

rvars == <<r_args, r_coll, r_pc, r_attempt, r_queries, r_kept, r_resolved,
           r_reranked, r_return, agent_cache, responder_cache>>

pvars == <<p_pc, p_args, p_result>>

cvars == <<categories_json, known_tokens_cache, load_history>>

vars == <<gvars, rvars, pvars, cvars>>

(***************************************************************************)
(* Bounds of the model.                                                    *)
(***************************************************************************)
MaxResults == 2         \* longest `results` list of the exhaustive inputs
PoolFaults == 1         \* failing responses while the long list is fetched
MaxColl == 2            \* most documents in the Chroma collection
MaxDistance == 200      \* largest distance _adjust_distance is called with
NegDistance == 50       \* it is called with distances down to -NegDistance
MaxHits == 4            \* most keyword hits of the signals
MaxItems == 10          \* longest list _bucket_by_percentile is called with

(***************************************************************************)
(* Program constants.                                                      *)
(***************************************************************************)
\* config.MAX_SIMILAR_TICKETS, imported by search_context.py; the value is
\* the deployment's, the model takes one above the pool's five workers.
MAX_SIMILAR_TICKETS == 6
RATE_LIMIT_SLEEP == 60      \* seconds
POOL_WORKERS == 5           \* the literal 5 of min(5, len(tickets_to_fetch))
FETCH_ATTEMPTS == 3         \* attempts = 3 in _fetch_ticket_context
AGENT_ATTEMPTS == 3         \* attempts = 3 in _fetch_agent_name
NOTE_LIMIT == 600           \* _truncate(..., 600)
SEARCH_MAX_DISTANCE == 550  \* 0.55
QUERY_TOP_N_DEFAULT == 1000
QUERY_TOP_N_CAP == 2000
QUERY_TOP_N_MIN == 50
TOKEN_BONUS == 50           \* 0.05
TOKEN_PENALTY == 40         \* 0.04
CATEGORY_BONUS == 80        \* 0.08
CATEGORY_PENALTY == 50      \* 0.05
KEYWORD_BONUS == 15         \* 0.015
KEYWORD_CAP == 3

(***************************************************************************)
(* Python values.                                                          *)
(***************************************************************************)
None == [t |-> "none"]
PyInt(n) == [t |-> "int", i |-> n]
PyStr(s) == [t |-> "str", s |-> s]
PyBool(b) == [t |-> "bool", b |-> b]
PyList(l) == [t |-> "list", l |-> l]
PyFloat(m) == [t |-> "float", m |-> m]      \* m counts thousandths

\* bool(v)
Truthy(v) ==
    CASE v.t = "none" -> FALSE
      [] v.t = "int"  -> v.i # 0
      [] v.t = "str"  -> v.s # ""
      [] v.t = "bool" -> v.b
      [] v.t = "list" -> v.l # <<>>
      [] v.t = "float" -> v.m # 0
      [] v.t = "dict" -> DOMAIN v.d # {}
      [] v.t = "QueryIntent" -> TRUE    \* a dataclass instance

\* a or b
PyOr(a, b) == IF Truthy(a) THEN a ELSE b

Min(a, b) == IF a <= b THEN a ELSE b
Max(a, b) == IF a >= b THEN a ELSE b

\* ----- str methods, computed character by character -----
IsSpace(c) == c = " "

RECURSIVE LStrip(_)
LStrip(s) ==
    IF Len(s) > 0 /\ IsSpace(SubSeq(s, 1, 1))
    THEN LStrip(SubSeq(s, 2, Len(s)))
    ELSE s

RECURSIVE RStrip(_)
RStrip(s) ==
    IF Len(s) > 0 /\ IsSpace(SubSeq(s, Len(s), Len(s)))
    THEN RStrip(SubSeq(s, 1, Len(s) - 1))
    ELSE s

\* s.strip()
Strip(s) == LStrip(RStrip(s))

\* " ".join(s.split()): runs of white space become one space, none at the ends
RECURSIVE JoinSplit(_)
JoinSplit(s) ==
    LET t == LStrip(s) IN
    IF t = "" THEN ""
    ELSE LET c    == SubSeq(t, 1, 1)
             rest == SubSeq(t, 2, Len(t))
         IN  IF rest # "" /\ IsSpace(SubSeq(rest, 1, 1))
             THEN (IF LStrip(rest) = "" THEN c
                   ELSE c \o " " \o JoinSplit(rest))
             ELSE c \o JoinSplit(rest)

Digits == <<"0", "1", "2", "3", "4", "5", "6", "7", "8", "9">>

\* str(n) of a non-negative int
RECURSIVE IntToStr(_)
IntToStr(n) ==
    IF n < 10 THEN Digits[n + 1]
    ELSE IntToStr(n \div 10) \o Digits[(n % 10) + 1]

DigitValue(c) == CHOOSE d \in 0..9 : Digits[d + 1] = c
IsDigit(c) == \E d \in 0..9 : Digits[d + 1] = c

RECURSIVE AllDigits(_)
AllDigits(s) ==
    s = "" \/ (IsDigit(SubSeq(s, 1, 1)) /\ AllDigits(SubSeq(s, 2, Len(s))))

RECURSIVE DigitsValue(_)
DigitsValue(s) ==
    IF s = "" THEN 0
    ELSE 10 * DigitsValue(SubSeq(s, 1, Len(s) - 1))
         + DigitValue(SubSeq(s, Len(s), Len(s)))

\* str(v)
PyStrOf(v) ==
    CASE v.t = "none" -> "None"
      [] v.t = "int"  -> IntToStr(v.i)
      [] v.t = "str"  -> v.s
      [] v.t = "bool" -> IF v.b THEN "True" ELSE "False"
      [] v.t = "list" -> "[...]"

\* int(v): [ok |-> TRUE, i |-> n], or [ok |-> FALSE] where Python raises
\* ValueError or TypeError
PyIntOf(v) ==
    CASE v.t = "int"  -> [ok |-> TRUE, i |-> v.i]
      [] v.t = "bool" -> [ok |-> TRUE, i |-> IF v.b THEN 1 ELSE 0]
      [] v.t = "str"  ->
            LET s == Strip(v.s) IN
            IF s # "" /\ AllDigits(s)
            THEN [ok |-> TRUE, i |-> DigitsValue(s)]
            ELSE [ok |-> FALSE]
      [] OTHER -> [ok |-> FALSE]

(***************************************************************************)
(* Text helpers of search_context.py.                                      *)
(***************************************************************************)
\* BeautifulSoup(html).get_text(separator=" ", strip=True) followed by the
\* white-space collapse of _clean_text: every tag separates two texts.
RECURSIVE TagsToSpaces(_, _)
TagsToSpaces(s, inTag) ==
    IF s = "" THEN ""
    ELSE LET c    == SubSeq(s, 1, 1)
             rest == SubSeq(s, 2, Len(s))
         IN  CASE c = "<" -> " " \o TagsToSpaces(rest, TRUE)
               [] c = ">" /\ inTag -> TagsToSpaces(rest, FALSE)
               [] inTag -> TagsToSpaces(rest, TRUE)
               [] OTHER -> c \o TagsToSpaces(rest, FALSE)

html_to_text(html) == IF html = "" THEN "" ELSE Strip(TagsToSpaces(html, FALSE))

_clean_text(raw) == IF raw = "" THEN "" ELSE JoinSplit(html_to_text(raw))

_truncate(text, limit) ==
    IF Len(text) <= limit THEN text
    ELSE RStrip(SubSeq(text, 1, limit - 1)) \o "..."

\* Optional[str]: None, or the stripped str(value) when that is not empty
_safe_trim(value) ==
    IF value.t = "none" THEN None
    ELSE LET s == Strip(PyStrOf(value)) IN
         IF s = "" THEN None ELSE PyStr(s)

\* Optional[int]
_safe_int(value) ==
    LET r == PyIntOf(value) IN IF r.ok THEN PyInt(r.i) ELSE None

ConversationNote(body, is_private, author, created_at) ==
    [body |-> body, is_private |-> is_private, author |-> author,
     created_at |-> created_at]

(***************************************************************************)
(* The data the model runs on: search results as retrieve_similar_tickets  *)
(* hands them over (document, metadata, distance), and what the            *)
(* Freshservice API holds for each ticket id.                              *)
(***************************************************************************)
MetaBase ==
    [ticket_id |-> None, subject |-> None, category |-> None,
     subcategory |-> None, sub_category |-> None, item |-> None,
     item_category |-> None, group_id |-> None, group_name |-> None,
     responder_name |-> None, conversations |-> None]

PyDict(d) == [t |-> "dict", d |-> d]

\* the keys of the search results: 1..5 make up the exhaustive inputs, the
\* rest only the list longer than the pool
SmallKeys == 1..5
AllKeys == 1..11

SearchDoc(k) ==
    CASE k = 1 -> "vpn drops on wifi"
      [] k = 2 -> "outlook crash on start"
      [] k = 3 -> "printer jam"
      [] k = 4 -> "no ticket id here"
      [] k = 5 -> "odd ticket id"
      [] OTHER -> "ticket text"

SearchMeta(k) ==
    CASE k = 1 -> [MetaBase EXCEPT
                     !.ticket_id = PyInt(101),
                     !.subject = PyStr("  VPN drops "),
                     !.category = PyStr("Network"),
                     !.sub_category = PyStr("VPN"),
                     !.item_category = PyStr(" "),
                     !.group_id = PyStr("7"),
                     !.group_name = PyStr("Net Ops"),
                     !.responder_name = PyStr("Ann Lee"),
                     !.conversations = PyStr("<p>reset  the token</p>")]
      [] k = 2 -> [MetaBase EXCEPT
                     !.ticket_id = PyStr(" 102"),
                     !.category = PyStr(" "),
                     !.subcategory = PyStr("Email"),
                     !.item = PyStr("Outlook"),
                     !.group_id = PyStr("x"),
                     !.conversations = PyList(<<
                         PyDict([body_text |-> None,
                                 body |-> PyStr("<b>repair</b> profile")]),
                         PyStr(" "),
                         PyInt(5)>>)]
      [] k = 3 -> [MetaBase EXCEPT
                     !.ticket_id = PyInt(103),
                     !.subject = PyStr("Printer jam"),
                     !.group_id = PyInt(9),
                     !.conversations = PyStr("power  cycle it</br>")]
      [] k = 4 -> [MetaBase EXCEPT !.subject = PyStr("no id")]
      [] k = 5 -> [MetaBase EXCEPT !.ticket_id = PyStr("abc")]
      [] OTHER -> [MetaBase EXCEPT
                     !.ticket_id = PyInt(100 + k),
                     !.subject = PyStr("Ticket")]

\* raw distances, in thousandths; 1 and 3 tie
SearchDist(k) ==
    CASE k = 1 -> 200
      [] k = 2 -> 100
      [] k = 3 -> 200
      [] k = 4 -> 50
      [] k = 5 -> 300
      [] k = 6 -> 150
      [] k = 7 -> 400
      [] k = 8 -> 120
      [] k = 9 -> 90
      [] OTHER -> 150

TicketBase ==
    [id |-> None, subject |-> None, description_text |-> None,
     description |-> None, category |-> None, subcategory |-> None,
     sub_category |-> None, item |-> None, item_category |-> None,
     group_id |-> None, group_name |-> None, responder_name |-> None,
     responder_id |-> None]

ConvBase ==
    [body_text |-> None, body |-> None, private |-> None,
     user_name |-> None, to_emails |-> None, created_at |-> None]

\* GET /tickets/{id}?include=conversations: payload["ticket"]
ApiTicket(tid) ==
    CASE tid = 101 -> [TicketBase EXCEPT
                         !.id = PyInt(101),
                         !.subject = PyStr("VPN drops on Wi-Fi "),
                         !.description_text = PyStr("VPN  drops when roaming"),
                         !.category = PyStr("Network"),
                         !.subcategory = PyStr("VPN"),
                         !.group_id = PyInt(7),
                         !.responder_id = PyInt(31)]
      [] tid = 102 -> [TicketBase EXCEPT
                         !.id = PyStr("102"),
                         !.subject = PyStr("Outlook crash"),
                         !.description =
                             PyStr("<div>Outlook <b>crashes</b> on start</div>"),
                         !.category = PyStr("Software"),
                         !.sub_category = PyStr("Email"),
                         !.item_category = PyStr("Outlook"),
                         !.group_id = PyStr("x"),
                         !.group_name = PyStr("Desk "),
                         !.responder_name = PyStr("Bo")]
      [] tid = 103 -> [TicketBase EXCEPT
                         !.subject = PyStr("Printer jam, tray 2"),
                         !.group_id = PyStr("7"),
                         !.group_name = PyStr(" ")]
      [] OTHER -> [TicketBase EXCEPT
                         !.id = PyInt(tid),
                         !.subject = PyStr("Ticket from the API"),
                         !.group_id = PyInt(7),
                         !.group_name = PyStr("Net Ops")]

\* payload["conversations"]
ApiConversations(tid) ==
    CASE tid = 101 -> <<[ConvBase EXCEPT
                           !.body_text = PyStr("rebooted  the router"),
                           !.private = PyBool(TRUE),
                           !.user_name = PyStr("Ann"),
                           !.created_at = PyStr("2024-01-02")],
                        [ConvBase EXCEPT !.private = PyBool(FALSE)]>>
      [] tid = 102 -> <<[ConvBase EXCEPT
                           !.body = PyStr("<p>new profile</p> <p>made</p>"),
                           !.private = PyStr("True"),
                           !.to_emails = PyStr(" it@example.org ")],
                        [ConvBase EXCEPT
                           !.body_text = PyStr("thanks"),
                           !.private = PyStr("true")]>>
      [] OTHER -> <<>>

\* GET /groups/{id}: payload["group"]["name"]
ApiGroupName(gid) == IF gid = 7 THEN PyStr(" Net Ops") ELSE None

\* the search results whose metadata carries a usable ticket id, and the id
ValidKeys ==
    {k \in AllKeys : Truthy(SearchMeta(k).ticket_id)
                      /\ PyIntOf(SearchMeta(k).ticket_id).ok}

TicketIdOf(k) == PyIntOf(SearchMeta(k).ticket_id).i

TicketIds == {TicketIdOf(k) : k \in ValidKeys}

(***************************************************************************)
(* TicketContext builders.                                                 *)
(***************************************************************************)
TicketContext(ticket_id, subject, description, category, subcategory, item,
              group_id, group_name, responder_name, distance, notes,
              notes_incomplete) ==
    [ticket_id |-> ticket_id, subject |-> subject,
     description |-> description, category |-> category,
     subcategory |-> subcategory, item |-> item, group_id |-> group_id,
     group_name |-> group_name, responder_name |-> responder_name,
     distance |-> distance, notes |-> notes,
     notes_incomplete |-> notes_incomplete]

\* the notes loop of _build_context_from_api
RECURSIVE ApiNotes(_)
ApiNotes(conversations) ==
    IF conversations = <<>> THEN <<>>
    ELSE LET conv == Head(conversations)
             body == PyOr(PyOr(conv.body_text, conv.body), PyStr(""))
         IN  IF ~Truthy(body) THEN ApiNotes(Tail(conversations))
             ELSE <<ConversationNote(
                       _truncate(_clean_text(body.s), NOTE_LIMIT),
                       PyStrOf(conv.private) = "True"
                           \/ conv.private = PyBool(TRUE),
                       _safe_trim(PyOr(conv.user_name, conv.to_emails)),
                       conv.created_at)>>
                  \o ApiNotes(Tail(conversations))

\* int(group_id_val) of _build_context_from_api: None when it is absent or
\* does not convert
ApiGroupId(ticket) ==
    IF ticket.group_id = None THEN None ELSE _safe_int(ticket.group_id)

\* whether _build_context_from_api calls get_group_name
NeedsGroupLookup(ticket) ==
    /\ ticket.group_id # None
    /\ PyIntOf(ticket.group_id).ok
    /\ _safe_trim(ticket.group_name) = None

\* _build_context_from_api; looked_up is what get_group_name returned when
\* it was called.  [ok |-> FALSE] where int(ticket id) raises.
_build_context_from_api(ticket, conversations, distance, looked_up) ==
    LET subject     == Strip(PyOr(ticket.subject, PyStr("")).s)
        description == _clean_text(
                           PyOr(PyOr(ticket.description_text,
                                     ticket.description), PyStr("")).s)
        notes       == ApiNotes(conversations)
        group_name  == IF NeedsGroupLookup(ticket) THEN PyStr(looked_up)
                       ELSE _safe_trim(ticket.group_name)
        tid         == PyIntOf(PyOr(ticket.id, PyInt(0)))
    IN  IF ~tid.ok THEN [ok |-> FALSE]
        ELSE [ok |-> TRUE,
              ctx |-> TicketContext(
                  tid.i, subject, description,
                  _safe_trim(ticket.category),
                  _safe_trim(PyOr(ticket.subcategory, ticket.sub_category)),
                  _safe_trim(PyOr(ticket.item, ticket.item_category)),
                  ApiGroupId(ticket), group_name,
                  _safe_trim(PyOr(ticket.responder_name, ticket.responder_id)),
                  distance, notes, FALSE)]

\* the list branch of _fallback_ticket_context's notes
RECURSIVE FallbackListNotes(_)
FallbackListNotes(entries) ==
    IF entries = <<>> THEN <<>>
    ELSE LET entry == Head(entries)
             raw   == IF entry.t = "dict"
                      THEN PyOr(PyOr(entry.d.body_text, entry.d.body),
                                PyStr("")).s
                      ELSE PyStrOf(entry)
             body  == _truncate(_clean_text(raw), NOTE_LIMIT)
         IN  IF body = "" THEN FallbackListNotes(Tail(entries))
             ELSE <<ConversationNote(body, FALSE, None, None)>>
                  \o FallbackListNotes(Tail(entries))

\* a fallback that takes the description from the metadata and does not
\* flag itself
_fallback_ticket_context_Unflagged(doc, meta, distance) ==
    [ok |-> TRUE,
     ctx |-> TicketContext(
         PyIntOf(PyOr(meta.ticket_id, PyInt(0))).i,
         PyOr(meta.subject, PyStr("")).s, "",
         meta.category, meta.subcategory, meta.item,
         _safe_int(meta.group_id), _safe_trim(meta.group_name),
         _safe_trim(meta.responder_name), distance, <<>>, FALSE)]

\* _fallback_ticket_context; [ok |-> FALSE] where int(ticket_id) raises
_fallback_ticket_context(doc, meta, distance) ==
    LET notes_raw == PyOr(meta.conversations, PyStr(""))
        notes == IF ~Truthy(notes_raw) THEN <<>>
                 ELSE IF notes_raw.t = "list"
                      THEN FallbackListNotes(notes_raw.l)
                      ELSE <<ConversationNote(
                                _truncate(_clean_text(PyStrOf(notes_raw)),
                                          NOTE_LIMIT),
                                FALSE, None, None)>>
        tid == PyIntOf(PyOr(meta.ticket_id, PyInt(0)))
        subject == _safe_trim(meta.subject)
    IN  IF ~tid.ok THEN [ok |-> FALSE]
        ELSE [ok |-> TRUE,
              ctx |-> TicketContext(
                  tid.i,
                  IF subject = None THEN "" ELSE subject.s,
                  doc,
                  _safe_trim(meta.category),
                  _safe_trim(PyOr(meta.subcategory, meta.sub_category)),
                  _safe_trim(PyOr(meta.item, meta.item_category)),
                  _safe_int(meta.group_id),
                  _safe_trim(meta.group_name),
                  _safe_trim(meta.responder_name),
                  distance, notes, TRUE)]

(***************************************************************************)
(* HTTP responses of the Freshservice API, as the retry loops tell them    *)
(* apart: a 2xx with a payload, a rate limit (429 or 503), another error   *)
(* status (raise_for_status raises), no response at all (session.get       *)
(* raises), a 2xx whose body is not JSON (resp.json() raises).             *)
(***************************************************************************)
Responses == {"ok", "429", "503", "http_error", "no_response", "bad_json"}

IsRateLimit(resp) == resp \in {"429", "503"}

\* the loop of get_group_name over the responses of its three attempts
RECURSIVE GroupNameLoop(_, _, _)
GroupNameLoop(gid, resps, attempt) ==
    IF attempt >= FETCH_ATTEMPTS THEN "Unknown"
    ELSE LET resp == resps[attempt + 1] IN
         IF resp = "ok"
         THEN LET name == Strip(PyOr(ApiGroupName(gid), PyStr("")).s)
              IN  IF name = "" THEN "Unknown" ELSE name
         ELSE GroupNameLoop(gid, resps, attempt + 1)

get_group_name(gid, resps) == GroupNameLoop(gid, resps, 0)

(***************************************************************************)
(* gather_ticket_contexts.                                                 *)
(***************************************************************************)
\* the loop over `results` that fills tickets_to_fetch
RECURSIVE CollectTickets(_, _, _)
CollectTickets(results, acc, safe_limit) ==
    IF results = <<>> \/ Len(acc) >= safe_limit THEN acc
    ELSE LET k         == Head(results)
             ticket_id == SearchMeta(k).ticket_id
             as_int    == PyIntOf(ticket_id)
         IN  IF Truthy(ticket_id) /\ as_int.ok
             THEN CollectTickets(Tail(results),
                                 Append(acc, [ticket_id |-> as_int.i, key |-> k]),
                                 safe_limit)
             ELSE CollectTickets(Tail(results), acc, safe_limit)

\* the requested limit taken as it is
SafeLimit_Uncapped(limit) ==
    IF limit = None THEN MAX_SIMILAR_TICKETS ELSE Max(0, limit.i)

SafeLimit(limit) ==
    LET requested == IF limit = None THEN MAX_SIMILAR_TICKETS
                     ELSE Max(0, limit.i)
    IN  IF requested > MAX_SIMILAR_TICKETS THEN MAX_SIMILAR_TICKETS
        ELSE requested

\* a pool as large as the list
PoolSize_Uncapped(n) == n

\* max_workers = min(5, len(tickets_to_fetch))
PoolSize(n) == Min(POOL_WORKERS, n)

NewTask ==
    [st |-> "queued", attempt |-> 0, gets |-> 0, rates |-> 0, got_ok |-> FALSE,
     slept |-> <<>>, result |-> None, collected |-> FALSE]

\* the futures a worker thread is executing
Running == {i \in DOMAIN task : task[i].st \in {"running", "lookup"}}

\* failing responses received so far
FaultsSoFar ==
    LET RECURSIVE Sum(_)
        Sum(i) == IF i = 0 THEN 0 ELSE task[i].gets
                      - (IF task[i].st \in {"ok", "lookup"} THEN 1 ELSE 0)
                      + Sum(i - 1)
    IN  Sum(Len(task))

\* lines 78-114: the limit, the tickets to fetch, the pool and the submits
gather_ticket_contexts ==
    /\ g_pc = "call"
    /\ LET fetch == CollectTickets(g_results, <<>>, SafeLimit(g_limit)) IN
       /\ tickets_to_fetch' = fetch
       /\ IF fetch = <<>>
          THEN /\ g_pc' = "done"
               /\ g_return' = <<>>
               /\ UNCHANGED <<max_workers, task>>
          ELSE /\ g_pc' = "collect"
               /\ max_workers' = PoolSize(Len(fetch))
               /\ task' = [i \in 1..Len(fetch) |-> NewTask]
               /\ UNCHANGED g_return
    /\ UNCHANGED <<g_results, g_limit, contexts, group_cache, fault_cap>>
    /\ UNCHANGED <<rvars, pvars, cvars>>

\* ThreadPoolExecutor: a worker thread takes the oldest queued work item;
\* there are never more than max_workers threads
CanStart(i) ==
    /\ task[i].st = "queued"
    /\ \A j \in 1..(i - 1) : task[j].st # "queued"
    /\ Cardinality(Running) < max_workers

WorkerStart(i) ==
    /\ g_pc = "collect"
    /\ CanStart(i)
    /\ task' = [task EXCEPT ![i].st = "running"]
    /\ UNCHANGED <<g_results, g_limit, g_pc, tickets_to_fetch, max_workers,
                   contexts, g_return, group_cache, fault_cap>>
    /\ UNCHANGED <<rvars, pvars, cvars>>

\* the same wait before every retry
AfterException_FlatBackoff(t) ==
    IF t.attempt = FETCH_ATTEMPTS - 1
    THEN [t EXCEPT !.st = "raised"]
    ELSE [t EXCEPT !.st = "running",
                   !.attempt = @ + 1,
                   !.slept = Append(@, RATE_LIMIT_SLEEP)]

\* a failure of the last attempt swallowed, the request sent once more
AfterException_NeverRaises(t) ==
    [t EXCEPT !.st = "running",
              !.attempt = Min(t.attempt + 1, FETCH_ATTEMPTS - 1),
              !.slept = Append(@, RATE_LIMIT_SLEEP * (t.attempt + 1))]

\* the except branch of _fetch_ticket_context: raise after the last attempt,
\* sleep and go round again before it
AfterException(t) ==
    IF t.attempt = FETCH_ATTEMPTS - 1
    THEN [t EXCEPT !.st = "raised"]
    ELSE [t EXCEPT !.st = "running",
                   !.attempt = @ + 1,
                   !.slept = Append(@, RATE_LIMIT_SLEEP * (t.attempt + 1))]

\* a success on the last attempt taken for a failure
AfterBuild_LastAttemptLost(t, built) ==
    IF built.ok /\ t.attempt < FETCH_ATTEMPTS - 1
    THEN [t EXCEPT !.st = "ok", !.result = built.ctx]
    ELSE AfterException(t)

\* the return of _build_context_from_api, or the exception it raised
AfterBuild(t, built) ==
    IF built.ok THEN [t EXCEPT !.st = "ok", !.result = built.ctx]
    ELSE AfterException(t)

\* what get_group_name can return for a group id
GroupNames(gid) ==
    {get_group_name(gid, resps) : resps \in [1..FETCH_ATTEMPTS -> Responses]}

\* the group id get_group_name is called with for a ticket, -1 when it is not
LookupGroup ==
    [tid \in TicketIds |->
        IF NeedsGroupLookup(ApiTicket(tid)) THEN ApiGroupId(ApiTicket(tid)).i
        ELSE -1]

LookupNames ==
    [tid \in TicketIds |->
        IF LookupGroup[tid] = -1 THEN {""} ELSE GroupNames(LookupGroup[tid])]

\* _build_context_from_api on the payload of each search result's ticket
LiveContexts ==
    [k \in ValidKeys |->
        LET tid == TicketIdOf(k) IN
        [name \in LookupNames[tid] |->
            _build_context_from_api(ApiTicket(tid), ApiConversations(tid),
                                    SearchDist(k), name)]]

LiveContext(i, looked_up) == LiveContexts[tickets_to_fetch[i].key][looked_up]

\* _fallback_ticket_context on each search result
FallbackContexts ==
    [k \in AllKeys |->
        _fallback_ticket_context(SearchDoc(k), SearchMeta(k), SearchDist(k))]

\* one round of the retry loop of _fetch_ticket_context, from session.get
\* to the return, the continue or the raise, on the response resp
_fetch_ticket_context(i, resp) ==
    LET t   == [task[i] EXCEPT !.gets = @ + 1,
                               !.rates = @ + (IF IsRateLimit(resp) THEN 1 ELSE 0),
                               !.got_ok = @ \/ resp = "ok"]
        gid == LookupGroup[tickets_to_fetch[i].ticket_id]
    IN  CASE IsRateLimit(resp) /\ t.attempt < FETCH_ATTEMPTS - 1 ->
                 [t EXCEPT !.attempt = @ + 1,
                           !.slept = Append(@, RATE_LIMIT_SLEEP * (t.attempt + 1))]
          [] IsRateLimit(resp) /\ t.attempt >= FETCH_ATTEMPTS - 1 ->
                 AfterException(t)
          [] resp \in {"http_error", "no_response", "bad_json"} ->
                 AfterException(t)
          [] resp = "ok" ->
                 IF gid = -1
                 THEN AfterBuild(t, LiveContext(i, ""))
                 ELSE IF gid \in DOMAIN group_cache
                      THEN AfterBuild(t, LiveContext(i, group_cache[gid]))
                      ELSE [t EXCEPT !.st = "lookup"]

FetchAttempt(i) ==
    /\ g_pc = "collect"
    /\ task[i].st = "running"
    /\ \E resp \in Responses :
          /\ resp = "ok" \/ FaultsSoFar < fault_cap
          /\ task' = [task EXCEPT ![i] = _fetch_ticket_context(i, resp)]
    /\ UNCHANGED <<g_results, g_limit, g_pc, tickets_to_fetch, max_workers,
                   contexts, g_return, group_cache, fault_cap>>
    /\ UNCHANGED <<rvars, pvars, cvars>>

\* functools.lru_cache around get_group_name: the result of a miss is stored
\* unless the key was added while the call ran
CacheInsert(cache, gid, name) ==
    IF gid \in DOMAIN cache THEN cache
    ELSE [g \in DOMAIN cache \cup {gid} |->
             IF g = gid THEN name ELSE cache[g]]

\* get_group_name returns to _build_context_from_api, which returns or raises
GroupLookup(i) ==
    /\ g_pc = "collect"
    /\ task[i].st = "lookup"
    /\ LET gid == LookupGroup[tickets_to_fetch[i].ticket_id] IN
       \E name \in GroupNames(gid) :
          /\ group_cache' = CacheInsert(group_cache, gid, name)
          /\ task' = [task EXCEPT ![i] = AfterBuild(@, LiveContext(i, name))]
    /\ UNCHANGED <<g_results, g_limit, g_pc, tickets_to_fetch, max_workers,
                   contexts, g_return, fault_cap>>
    /\ UNCHANGED <<rvars, pvars, cvars>>

\* no except around future.result(): a failed fetch ends the whole call
CollectedContext_NoFallback(i) ==
    IF task[i].st = "ok" THEN [ok |-> TRUE, ctx |-> task[i].result]
    ELSE [ok |-> FALSE]

\* one round of the as_completed loop: the context of a finished future, or
\* the fallback context when future.result() raises
CollectedContext(i) ==
    IF task[i].st = "ok" THEN [ok |-> TRUE, ctx |-> task[i].result]
    ELSE FallbackContexts[tickets_to_fetch[i].key]

Collect(i) ==
    /\ g_pc = "collect"
    /\ task[i].st \in {"ok", "raised"}
    /\ ~task[i].collected
    /\ LET c == CollectedContext(i) IN
       IF c.ok
       THEN /\ contexts' = Append(contexts, c.ctx)
            /\ task' = [task EXCEPT ![i].collected = TRUE]
            /\ UNCHANGED g_pc
       ELSE /\ g_pc' = "raised"
            /\ UNCHANGED <<contexts, task>>
    /\ UNCHANGED <<g_results, g_limit, tickets_to_fetch, max_workers,
                   g_return, group_cache, fault_cap>>
    /\ UNCHANGED <<rvars, pvars, cvars>>

\* list.sort(key=lambda ctx: ctx.distance): a stable sort
RECURSIVE InsertByDistance(_, _)
InsertByDistance(sorted, ctx) ==
    IF sorted = <<>> THEN <<ctx>>
    ELSE IF Head(sorted).distance <= ctx.distance
         THEN <<Head(sorted)>> \o InsertByDistance(Tail(sorted), ctx)
         ELSE <<ctx>> \o sorted

\* the list left in completion order
SortByDistance_Unsorted(list) == list

RECURSIVE SortByDistance(_)
SortByDistance(list) ==
    IF list = <<>> THEN <<>>
    ELSE InsertByDistance(SortByDistance(SubSeq(list, 1, Len(list) - 1)),
                          list[Len(list)])

\* lines 128-131: every future is collected; sort and return
GatherReturn ==
    /\ g_pc = "collect"
    /\ \A i \in DOMAIN task : task[i].collected
    /\ g_return' = SortByDistance(contexts)
    /\ g_pc' = "done"
    /\ UNCHANGED <<g_results, g_limit, tickets_to_fetch, max_workers, task,
                   contexts, group_cache, fault_cap>>
    /\ UNCHANGED <<rvars, pvars, cvars>>

(***************************************************************************)
(* search_intent.py: words, intents and the signals of a result.           *)
(***************************************************************************)
UpperChars == "ABCDEFGHIJKLMNOPQRSTUVWXYZ"
LowerChars == "abcdefghijklmnopqrstuvwxyz"

IsUpper(c) == \E i \in 1..26 : SubSeq(UpperChars, i, i) = c
IsLower(c) == \E i \in 1..26 : SubSeq(LowerChars, i, i) = c

\* c.lower() of one character
LowerChar(c) ==
    IF IsUpper(c)
    THEN LET i == CHOOSE j \in 1..26 : SubSeq(UpperChars, j, j) = c
         IN  SubSeq(LowerChars, i, i)
    ELSE c

\* s.lower()
RECURSIVE Lower(_)
Lower(s) ==
    IF s = "" THEN ""
    ELSE LowerChar(SubSeq(s, 1, 1)) \o Lower(SubSeq(s, 2, Len(s)))

\* a character of [A-Za-z0-9_]
IsWordChar(c) == IsUpper(c) \/ IsLower(c) \/ IsDigit(c) \/ c = "_"

_normalize_token(word) == Lower(Strip(word))

\* _WORD_RE.finditer(text): the maximal runs of word characters, normalized
RECURSIVE WordsFrom(_, _)
WordsFrom(s, word) ==
    LET found == IF word = "" THEN <<>> ELSE <<_normalize_token(word)>> IN
    IF s = "" THEN found
    ELSE LET c    == SubSeq(s, 1, 1)
             rest == SubSeq(s, 2, Len(s))
         IN  IF IsWordChar(c) THEN WordsFrom(rest, word \o c)
             ELSE found \o WordsFrom(rest, "")

_iter_words(text) == WordsFrom(text, "")

SeqToSet(seq) == {seq[i] : i \in DOMAIN seq}

QueryIntent(tokens, keywords, category, subcategory, item) ==
    [t |-> "QueryIntent", tokens |-> tokens, keywords |-> keywords,
     category |-> category, subcategory |-> subcategory, item |-> item]

\* a path only when the category itself is given
has_category_path_CategoryOnly(intent) == Truthy(intent.category)

\* any([self.category, self.subcategory, self.item])
has_category_path(intent) ==
    Truthy(intent.category) \/ Truthy(intent.subcategory) \/ Truthy(intent.item)

ResultSignals(token_match, category_match, keyword_hits) ==
    [token_match |-> token_match, category_match |-> category_match,
     keyword_hits |-> keyword_hits]

_normalize_or_none(value) ==
    IF value = None THEN None
    ELSE LET s == Strip(PyStrOf(value)) IN
         IF s = "" THEN None ELSE PyStr(_normalize_token(s))

\* the category alone decides
annotate_result_with_tokens_Shallow(document_text, metadata, intent) ==
    LET text_words == SeqToSet(_iter_words(document_text))
        meta_tokens == {_normalize_or_none(metadata.category),
                        _normalize_or_none(metadata.subcategory),
                        _normalize_or_none(metadata.item)}
        token_match == \E token \in intent.tokens :
                          token \in text_words \/ PyStr(token) \in meta_tokens
        category_match ==
            /\ Truthy(intent.category)
            /\ _normalize_or_none(metadata.category) = intent.category
        keyword_hits == Cardinality(intent.keywords \cap text_words)
    IN  ResultSignals(token_match, category_match, keyword_hits)

annotate_result_with_tokens(document_text, metadata, intent) ==
    LET text_words == SeqToSet(_iter_words(document_text))
        meta_tokens == {_normalize_or_none(metadata.category),
                        _normalize_or_none(metadata.subcategory),
                        _normalize_or_none(metadata.item)}
        token_match == \E token \in intent.tokens :
                          token \in text_words \/ PyStr(token) \in meta_tokens
        category_match ==
            /\ Truthy(intent.category)
            /\ _normalize_or_none(metadata.category) = intent.category
            /\ Truthy(intent.subcategory) =>
                  _normalize_or_none(metadata.subcategory) = intent.subcategory
            /\ Truthy(intent.item) =>
                  _normalize_or_none(metadata.item) = intent.item
        keyword_hits == Cardinality(intent.keywords \cap text_words)
    IN  ResultSignals(token_match, category_match, keyword_hits)

_STOPWORDS ==
    {"the", "and", "for", "with", "when", "this", "that", "from", "into",
     "have", "having", "cant", "can't", "cannot", "trying", "error", "issue",
     "problem", "access", "open", "opening", "launch", "launching", "login",
     "log", "fails", "failure", "failed", "please", "help"}

\* the seed list used when categories.json is missing, invalid or empty
DEFAULT_TOKENS ==
    {"revit", "bluebeam", "teams", "outlook", "autocad", "photoshop",
     "sharepoint", "dynamo", "vpn", "onedrive", "microsoft"}

\* the tokens of one category of categories.json and of what is under it
CategoryTokens(cat, subs) ==
    {_normalize_token(cat)} \cup
    IF subs.t = "dict"
    THEN UNION {{_normalize_token(sub)} \cup
                IF subs.d[sub].t = "list"
                THEN {_normalize_token(PyStrOf(subs.d[sub].l[i])) :
                         i \in DOMAIN subs.d[sub].l}
                ELSE {} : sub \in DOMAIN subs.d}
    ELSE {}

\* data is the parsed content of categories.json, None when the file is
\* missing or cannot be parsed
_load_known_tokens(data) ==
    LET tokens == IF data.t = "dict"
                  THEN UNION {CategoryTokens(cat, data.d[cat]) :
                                 cat \in DOMAIN data.d}
                  ELSE {}
    IN  IF tokens = {} THEN DEFAULT_TOKENS ELSE tokens

\* words of three characters kept as well
_extract_keywords_ShortKept(words) ==
    {word \in SeqToSet(words) : Len(word) >= 3 /\ word \notin _STOPWORDS}

_extract_keywords(words) ==
    {word \in SeqToSet(words) : Len(word) > 3 /\ word \notin _STOPWORDS}

\* lines 138-164 of extract_query_intent, after the vocabulary is at hand
IntentFrom(query, seed_metadata, known_tokens) ==
    LET words == _iter_words(query)
        matched_tokens == {word \in SeqToSet(words) : word \in known_tokens}
        keywords == _extract_keywords(words)
        seeded == seed_metadata # None
        category == IF seeded THEN _normalize_or_none(seed_metadata.category)
                    ELSE None
        subcategory == IF seeded
                       THEN _normalize_or_none(seed_metadata.subcategory)
                       ELSE None
        item == IF seeded THEN _normalize_or_none(seed_metadata.item)
                ELSE None
        seed_tokens == {value.s : value \in {v \in {category, subcategory, item} :
                                                Truthy(v)}}
    IN  QueryIntent(matched_tokens \cup seed_tokens, keywords,
                    category, subcategory, item)

\* a call in a process that has not loaded the vocabulary yet; data is what
\* the file at categories_path holds
extract_query_intent(query, seed_metadata, data) ==
    IntentFrom(query, seed_metadata, _load_known_tokens(data))

(***************************************************************************)
(* The vocabulary over the life of a process: calls of                     *)
(* extract_query_intent with one path or another, the taxonomy files       *)
(* changing in between, and _load_known_tokens.cache_clear().              *)
(***************************************************************************)
Paths == {"categories.json", "other.json"}

\* what a taxonomy file can hold; None when it is missing or not JSON
FileContents ==
    {PyDict([c \in {"Software"} |->
               PyDict([u \in {"Revit"} |-> PyList(<<PyStr("Desktop")>>)])]),
     PyDict([c \in {"Hardware"} |-> PyList(<<PyStr("Laptop")>>)]),
     None}

\* a query that tells the vocabularies of FileContents apart
VocabularyQuery == "REVIT vpn on hardware"

NotLoaded == [t |-> "not loaded"]

NoLoads == [first |-> [path \in Paths |-> NotLoaded], last |-> NotLoaded]

\* the cached vocabulary served whatever the path
CachedKnownTokens_AnyPath(cache, path, data) ==
    IF cache # None THEN [tokens |-> cache.tokens, cache |-> cache]
    ELSE LET tokens == _load_known_tokens(data)
         IN  [tokens |-> tokens, cache |-> [path |-> path, tokens |-> tokens]]

\* @lru_cache(maxsize=1) on _load_known_tokens: the one entry is keyed by
\* the path; a miss reads the file and replaces the entry
CachedKnownTokens(cache, path, data) ==
    IF cache # None /\ cache.path = path
    THEN [tokens |-> cache.tokens, cache |-> cache]
    ELSE LET tokens == _load_known_tokens(data)
         IN  [tokens |-> tokens, cache |-> [path |-> path, tokens |-> tokens]]

\* the record of the loads: for each path the content read by its first load
\* since the last cache_clear, and the path and content of the latest load;
\* a call for the path of the latest load does not load
Loaded(history, path, data) ==
    IF history.last # NotLoaded /\ history.last.path = path THEN history
    ELSE [first |-> IF history.first[path] = NotLoaded
                    THEN [history.first EXCEPT ![path] = data]
                    ELSE history.first,
          last |-> [path |-> path, data |-> data]]

\* extract_query_intent(VocabularyQuery, categories_path=path)
ExtractQueryIntent(path) ==
    /\ LET got == CachedKnownTokens(known_tokens_cache, path,
                                    categories_json[path])
       IN  /\ p_result' = IntentFrom(VocabularyQuery, None, got.tokens)
           /\ known_tokens_cache' = got.cache
    /\ load_history' = Loaded(load_history, path, categories_json[path])
    /\ p_args' = [query |-> VocabularyQuery, seed_metadata |-> None,
                  path |-> path]
    /\ p_pc' = "done"
    /\ UNCHANGED <<categories_json, gvars, rvars>>

\* the taxonomy file at path is rewritten, removed or created
ChangeResource(path, data) ==
    /\ categories_json[path] # data
    /\ categories_json' = [categories_json EXCEPT ![path] = data]
    /\ p_pc' = "call"
    /\ UNCHANGED <<p_args, p_result, known_tokens_cache, load_history,
                   gvars, rvars>>

\* _load_known_tokens.cache_clear()
cache_clear ==
    /\ known_tokens_cache # None
    /\ known_tokens_cache' = None
    /\ load_history' = NoLoads
    /\ p_pc' = "call"
    /\ UNCHANGED <<p_args, p_result, categories_json, gvars, rvars>>

\* no vocabulary is loaded
VocabularyUnused ==
    /\ categories_json = [path \in Paths |-> None]
    /\ known_tokens_cache = None
    /\ load_history = NoLoads

\* the arguments retrieve_similar_tickets is called with
TopNArgs == {None, PyInt(-5), PyInt(3000)}

MaxDistanceArgs == {None, PyFloat(0), PyFloat(150), PyFloat(-100)}

IntentArgs ==
    {None,
     QueryIntent({"vpn"}, {"drops", "wifi"}, PyStr("network"), None, None),
     QueryIntent({}, {"outlook"}, None, PyStr("email"), None),
     QueryIntent({"vpn", "email"}, {}, None, None, None),
     QueryIntent({}, {"drops"}, PyStr(""), None, None)}

(***************************************************************************)
(* The documents the Chroma collection can hold, with the distance of each *)
(* to the query, and what the Freshservice API knows about agents.         *)
(***************************************************************************)
StoreKeys == 1..5

StoreMetaBase ==
    [type |-> None, ticket_id |-> None, category |-> None,
     subcategory |-> None, item |-> None, responder_name |-> None,
     responder_id |-> None, relevance |-> None]

\* the keys of meta["relevance"]; None stands for an absent key
RelevanceBase ==
    [token_match |-> None, category_match |-> None, keyword_hits |-> None,
     adjusted_distance |-> None, query_tokens |-> None,
     query_category |-> None, note |-> None]

StoreDoc(k) ==
    CASE k = 1 -> PyStr("VPN drops on wifi")
      [] k = 2 -> PyStr("Outlook crash; vpn_client ok")
      [] k = 3 -> None
      [] k = 4 -> PyStr("wifi drops")
      [] k = 5 -> PyStr("vpn down")

StoreMeta(k) ==
    CASE k = 1 -> [StoreMetaBase EXCEPT
                     !.type = PyStr("incident"),
                     !.ticket_id = PyInt(101),
                     !.category = PyStr("Network"),
                     !.subcategory = PyStr("VPN"),
                     !.responder_name = PyStr("Ann Lee")]
      [] k = 2 -> [StoreMetaBase EXCEPT
                     !.type = PyStr("Incident"),
                     !.ticket_id = PyStr(" 102"),
                     !.category = PyStr(" "),
                     !.subcategory = PyStr("Email"),
                     !.item = PyStr("Outlook")]
      [] k = 3 -> [StoreMetaBase EXCEPT
                     !.type = PyStr("service_request"),
                     !.ticket_id = PyInt(103),
                     !.responder_name = PyStr("Unknown"),
                     !.responder_id = PyStr("31"),
                     !.relevance = PyDict([RelevanceBase EXCEPT
                                      !.adjusted_distance = PyFloat(999),
                                      !.note = PyStr("stale")])]
      [] k = 4 -> [StoreMetaBase EXCEPT
                     !.type = PyStr("incident"),
                     !.responder_name = PyStr(" unassigned "),
                     !.responder_id = PyStr("x")]
      [] k = 5 -> [StoreMetaBase EXCEPT
                     !.type = PyStr("Incident"),
                     !.ticket_id = PyInt(105),
                     !.category = PyStr("network"),
                     !.responder_name = PyStr("Cy Dee")]

\* raw distances to the query, in thousandths
StoreDist(k) ==
    CASE k = 1 -> 120
      [] k = 2 -> 100
      [] k = 3 -> 140
      [] k = 4 -> 0
      [] k = 5 -> 600

\* GET /tickets/{id}: the ticket's responder_id
ApiResponderId(tid) == IF tid = 102 THEN PyStr("31") ELSE None

AgentBase ==
    [first_name |-> None, last_name |-> None, name |-> None,
     contact |-> None]

ContactBase == [name |-> None, first_name |-> None, last_name |-> None]

\* GET /agents/{id}: the payload's "agent"
ApiAgent(rid) ==
    IF rid = 31
    THEN PyDict([AgentBase EXCEPT !.first_name = PyStr(" Dee"),
                                  !.last_name = PyStr("Ray ")])
    ELSE PyDict([AgentBase EXCEPT
                   !.contact = PyDict([ContactBase EXCEPT
                                         !.name = PyStr("Desk")])])

(***************************************************************************)
(* search_tickets.py: the assigned agent of a result.                      *)
(***************************************************************************)
\* str(v or "").strip()
StrOrEmpty(v) == Strip(PyStrOf(PyOr(v, PyStr(""))))

_name_from_agent_payload(payload_agent) ==
    LET agent == PyOr(payload_agent, PyDict(AgentBase)).d
        first == StrOrEmpty(agent.first_name)
        last  == StrOrEmpty(agent.last_name)
        name  == StrOrEmpty(agent.name)
        contact == PyOr(agent.contact, PyDict(ContactBase)).d
        cname  == StrOrEmpty(contact.name)
        cfirst == StrOrEmpty(contact.first_name)
        clast  == StrOrEmpty(contact.last_name)
    IN  IF first # "" \/ last # "" THEN Strip(first \o " " \o last)
        ELSE IF name # "" THEN name
        ELSE IF cname # "" THEN cname
        ELSE IF cfirst # "" \/ clast # "" THEN Strip(cfirst \o " " \o clast)
        ELSE "Unknown"

\* the loop of _fetch_agent_name over the responses of its attempts
RECURSIVE AgentNameLoop(_, _, _)
AgentNameLoop(agent_id, resps, i) ==
    LET resp == resps[i + 1] IN
    IF IsRateLimit(resp) /\ i < AGENT_ATTEMPTS - 1
    THEN AgentNameLoop(agent_id, resps, i + 1)
    ELSE IF resp = "ok" THEN _name_from_agent_payload(ApiAgent(agent_id))
    ELSE IF i < AGENT_ATTEMPTS - 1 THEN AgentNameLoop(agent_id, resps, i + 1)
    ELSE "Unknown"

_fetch_agent_name(agent_id, resps) == AgentNameLoop(agent_id, resps, 0)

\* one GET, no retry: the ticket's responder_id as an int, or None
_fetch_ticket_responder_id(ticket_id, resp) ==
    IF resp # "ok" THEN None
    ELSE LET rid == ApiResponderId(ticket_id) IN
         IF rid # None /\ PyIntOf(rid).ok THEN PyInt(PyIntOf(rid).i) ELSE None

AgentIds == {31}
LookupTicketIds == {101, 102, 103, 105}

\* what the two lookups can return on a cache miss
AgentNames ==
    [rid \in AgentIds |->
        {_fetch_agent_name(rid, resps) :
            resps \in [1..AGENT_ATTEMPTS -> Responses]}]

ResponderIds ==
    [tid \in LookupTicketIds |->
        {_fetch_ticket_responder_id(tid, resp) : resp \in Responses}]

\* name and name.lower() not in {"unknown", "unassigned"}
IsAssignedName(name) ==
    name # "" /\ Lower(name) \notin {"unknown", "unassigned"}

\* lines 248-251: the result already names its agent
HasAgentName(meta) ==
    IsAssignedName(Strip(PyOr(meta.responder_name, PyStr("")).s))

\* lines 253-258: int(rid) of the metadata's responder_id, or None
MetaResponderId(meta) ==
    IF meta.responder_id # None /\ PyIntOf(meta.responder_id).ok
    THEN PyInt(PyIntOf(meta.responder_id).i)
    ELSE None

\* lines 260-267: the ticket whose responder is looked up, or None
TicketToLookUp(meta) ==
    IF ~HasAgentName(meta) /\ MetaResponderId(meta) = None
       /\ PyIntOf(meta.ticket_id).ok
    THEN PyInt(PyIntOf(meta.ticket_id).i)
    ELSE None

\* the three of them for the metadata of each stored document
ResolvePlan ==
    [k \in StoreKeys |->
        [named |-> HasAgentName(StoreMeta(k)),
         meta_rid |-> MetaResponderId(StoreMeta(k)),
         tid |-> TicketToLookUp(StoreMeta(k))]]

\* what _fetch_ticket_responder_id(tid) can return, through its cache
TicketLookups(plan, rcache) ==
    IF plan.tid = None THEN {None}
    ELSE IF plan.tid.i \in DOMAIN rcache THEN {rcache[plan.tid.i]}
    ELSE ResponderIds[plan.tid.i]

\* rid_int at line 269
ResponderOf(plan, ticket_rid) ==
    IF plan.named THEN None
    ELSE IF plan.meta_rid # None THEN plan.meta_rid
    ELSE ticket_rid

\* what _fetch_agent_name(rid) can return, through its cache
AgentLookups(rid, acache) ==
    IF rid = None THEN {""}
    ELSE IF rid.i \in DOMAIN acache THEN {acache[rid.i]}
    ELSE AgentNames[rid.i]

\* lines 270-272: the stripped name when it names an agent, else None
ResolvedNames ==
    [name \in {""} \cup UNION {AgentNames[rid] : rid \in AgentIds} |->
        IF IsAssignedName(Strip(name)) THEN PyStr(Strip(name)) ELSE None]

_resolve_assigned_agent(meta, rid, agent_name) ==
    IF rid # None /\ ResolvedNames[agent_name] # None
    THEN [meta EXCEPT !.responder_name = ResolvedNames[agent_name]]
    ELSE meta

(***************************************************************************)
(* search_tickets.py: querying the collection.                             *)
(***************************************************************************)
INCIDENT_WHERE == PyDict([type |-> PyStr("incident")])
INCIDENT_CAP_WHERE == PyDict([type |-> PyStr("Incident")])

\* the `attempts` of retrieve_similar_tickets
Attempts == <<INCIDENT_WHERE, INCIDENT_CAP_WHERE, None>>

\* count is coll.count(): [ok |-> TRUE, i |-> n], or [ok |-> FALSE] when it
\* raises
_compute_n_results(count, top_n) ==
    IF top_n # None /\ top_n.i > 0
    THEN Max(QUERY_TOP_N_MIN, Min(top_n.i, QUERY_TOP_N_CAP))
    ELSE IF count.ok /\ count.i > 0
         THEN Max(QUERY_TOP_N_MIN, Min(count.i, QUERY_TOP_N_DEFAULT))
         ELSE QUERY_TOP_N_DEFAULT

\* Chroma's where: the documents whose metadata equal the filter's value
MatchesWhere(where, meta) == where = None \/ meta.type = where.d.type

\* the keys of S by increasing distance
RECURSIVE ByDistance(_)
ByDistance(S) ==
    IF S = {} THEN <<>>
    ELSE LET k == CHOOSE x \in S :
                    \A y \in S : \/ StoreDist(x) < StoreDist(y)
                                 \/ StoreDist(x) = StoreDist(y) /\ x <= y
         IN  <<k>> \o ByDistance(S \ {k})

\* coll.query(n_results=n, where=where): the n nearest matching documents
StoreQuery(coll, where, n) ==
    LET hits == ByDistance({k \in coll : MatchesWhere(where, StoreMeta(k))})
    IN  SubSeq(hits, 1, Min(n, Len(hits)))

\* the distance Chroma reports for a document
ResultDistance(k) == PyFloat(StoreDist(k))

\* a triple (d or "", m or {}, float(dist)); key tells which document it is
Triple(k) ==
    [key |-> k, doc |-> PyOr(StoreDoc(k), PyStr("")).s, meta |-> StoreMeta(k),
     dist |-> ResultDistance(k).m]

Triples == [k \in StoreKeys |-> Triple(k)]

\* the zip of documents, metadatas and distances, without the results that
\* have no distance
_triples(res) ==
    LET HasDistance(k) == ResultDistance(k) # None
        having == SelectSeq(res, HasDistance)
    IN  [i \in DOMAIN having |-> Triples[having[i]]]

\* a zero max_distance taken for a missing one
Threshold_Truthiness(max_distance) ==
    PyOr(max_distance, PyFloat(SEARCH_MAX_DISTANCE)).m

\* line 375
Threshold(max_distance) ==
    IF max_distance # None THEN max_distance.m ELSE SEARCH_MAX_DISTANCE

\* line 376
EffectiveIntent(intent) == PyOr(intent, QueryIntent({}, {}, None, None, None))

\* line 402
Kept(triples, threshold) ==
    LET Near(x) == x.dist <= threshold IN SelectSeq(triples, Near)

\* kept.sort(key=lambda x: x[2]): a stable sort
RECURSIVE InsertByRaw(_, _)
InsertByRaw(sorted, x) ==
    IF sorted = <<>> THEN <<x>>
    ELSE IF Head(sorted).dist <= x.dist
         THEN <<Head(sorted)>> \o InsertByRaw(Tail(sorted), x)
         ELSE <<x>> \o sorted

RECURSIVE SortByRaw(_)
SortByRaw(list) ==
    IF list = <<>> THEN <<>>
    ELSE InsertByRaw(SortByRaw(SubSeq(list, 1, Len(list) - 1)),
                     list[Len(list)])

(***************************************************************************)
(* search_tickets.py: reranking and strict filters.                        *)
(***************************************************************************)
\* a missing token costs nothing
_adjust_distance_NoPenalty(dist, intent, signals) ==
    LET token_bonus == IF intent.tokens # {} /\ signals.token_match
                       THEN TOKEN_BONUS ELSE 0
        token_penalty == IF intent.tokens # {} /\ ~signals.token_match
                         THEN 0 ELSE 0
        category_bonus == IF has_category_path(intent) /\ signals.category_match
                          THEN CATEGORY_BONUS ELSE 0
        category_penalty == IF has_category_path(intent)
                               /\ ~signals.category_match
                            THEN CATEGORY_PENALTY ELSE 0
        keyword_bonus == IF signals.keyword_hits # 0
                         THEN Min(signals.keyword_hits, KEYWORD_CAP)
                              * KEYWORD_BONUS
                         ELSE 0
        adjusted == dist + (token_penalty + category_penalty)
                    - (token_bonus + category_bonus + keyword_bonus)
    IN  IF adjusted > 0 THEN adjusted ELSE 0

\* the result not clamped at zero
_adjust_distance_Unclamped(dist, intent, signals) ==
    LET token_bonus == IF intent.tokens # {} /\ signals.token_match
                       THEN TOKEN_BONUS ELSE 0
        token_penalty == IF intent.tokens # {} /\ ~signals.token_match
                         THEN TOKEN_PENALTY ELSE 0
        category_bonus == IF has_category_path(intent) /\ signals.category_match
                          THEN CATEGORY_BONUS ELSE 0
        category_penalty == IF has_category_path(intent)
                               /\ ~signals.category_match
                            THEN CATEGORY_PENALTY ELSE 0
        keyword_bonus == IF signals.keyword_hits # 0
                         THEN Min(signals.keyword_hits, KEYWORD_CAP)
                              * KEYWORD_BONUS
                         ELSE 0
        adjusted == dist + (token_penalty + category_penalty)
                    - (token_bonus + category_bonus + keyword_bonus)
    IN  adjusted

\* no bonus is taken off
_adjust_distance_NoBonus(dist, intent, signals) ==
    LET token_bonus == IF intent.tokens # {} /\ signals.token_match
                       THEN TOKEN_BONUS ELSE 0
        token_penalty == IF intent.tokens # {} /\ ~signals.token_match
                         THEN TOKEN_PENALTY ELSE 0
        category_bonus == IF has_category_path(intent) /\ signals.category_match
                          THEN CATEGORY_BONUS ELSE 0
        category_penalty == IF has_category_path(intent)
                               /\ ~signals.category_match
                            THEN CATEGORY_PENALTY ELSE 0
        keyword_bonus == IF signals.keyword_hits # 0
                         THEN Min(signals.keyword_hits, KEYWORD_CAP)
                              * KEYWORD_BONUS
                         ELSE 0
        adjusted == dist + (token_penalty + category_penalty)
                    - 0
    IN  IF adjusted > 0 THEN adjusted ELSE 0

_adjust_distance(dist, intent, signals) ==
    LET token_bonus == IF intent.tokens # {} /\ signals.token_match
                       THEN TOKEN_BONUS ELSE 0
        token_penalty == IF intent.tokens # {} /\ ~signals.token_match
                         THEN TOKEN_PENALTY ELSE 0
        category_bonus == IF has_category_path(intent) /\ signals.category_match
                          THEN CATEGORY_BONUS ELSE 0
        category_penalty == IF has_category_path(intent)
                               /\ ~signals.category_match
                            THEN CATEGORY_PENALTY ELSE 0
        keyword_bonus == IF signals.keyword_hits # 0
                         THEN Min(signals.keyword_hits, KEYWORD_CAP)
                              * KEYWORD_BONUS
                         ELSE 0
        adjusted == dist + (token_penalty + category_penalty)
                    - (token_bonus + category_bonus + keyword_bonus)
    IN  IF adjusted > 0 THEN adjusted ELSE 0

\* annotate_result_with_tokens on each stored document, for each intent; its
\* inputs are the same after _resolve_assigned_agent, which changes
\* responder_name only
Signals ==
    [k \in StoreKeys |->
        [intent \in {EffectiveIntent(i) : i \in IntentArgs} |->
            annotate_result_with_tokens(Triples[k].doc, StoreMeta(k), intent)]]

\* the tokens of the model's intents, in sorted() order
TokenOrder == <<"email", "vpn">>

SortedTokens(tokens) ==
    LET Has(w) == w \in tokens IN SelectSeq(TokenOrder, Has)

\* lines 283-307: one entry (doc, meta, dist, adjusted) of `reranked`
RerankEntry(result, intent) ==
    LET signals == Signals[result.key][intent]
        adjusted == _adjust_distance(result.dist, intent, signals)
        old == PyOr(result.meta.relevance, PyDict(RelevanceBase)).d
        relevance ==
            [old EXCEPT
               !.token_match = PyBool(signals.token_match),
               !.category_match = PyBool(signals.category_match),
               !.keyword_hits = PyInt(signals.keyword_hits),
               !.adjusted_distance = PyFloat(adjusted),
               !.query_tokens =
                   IF intent.tokens # {} /\ @ = None
                   THEN PyList(SortedTokens(intent.tokens)) ELSE @,
               !.query_category =
                   IF has_category_path(intent) /\ @ = None
                   THEN PyDict([category |-> intent.category,
                                subcategory |-> intent.subcategory,
                                item |-> intent.item])
                   ELSE @]
    IN  [key |-> result.key, doc |-> result.doc,
         meta |-> [result.meta EXCEPT !.relevance = PyDict(relevance)],
         dist |-> result.dist, adjusted |-> adjusted]

\* entry a is not after entry b under the key (entry[3], entry[2])
KeyLeq(a, b) ==
    \/ a.adjusted < b.adjusted
    \/ a.adjusted = b.adjusted /\ a.dist <= b.dist

RECURSIVE InsertByAdjusted(_, _)
InsertByAdjusted(sorted, x) ==
    IF sorted = <<>> THEN <<x>>
    ELSE IF KeyLeq(Head(sorted), x)
         THEN <<Head(sorted)>> \o InsertByAdjusted(Tail(sorted), x)
         ELSE <<x>> \o sorted

\* the entries left in the order of their raw distances
SortByAdjusted_RawOrder(list) == list

\* reranked.sort(key=lambda entry: (entry[3], entry[2])): a stable sort
RECURSIVE SortByAdjusted(_)
SortByAdjusted(list) ==
    IF list = <<>> THEN <<>>
    ELSE InsertByAdjusted(SortByAdjusted(SubSeq(list, 1, Len(list) - 1)),
                          list[Len(list)])

_rerank_results(results, intent) ==
    LET reranked == SortByAdjusted(
                       [i \in DOMAIN results |-> RerankEntry(results[i], intent)])
    IN  [i \in DOMAIN reranked |->
            [key |-> reranked[i].key, doc |-> reranked[i].doc,
             meta |-> reranked[i].meta, dist |-> reranked[i].dist]]

\* r[1].get("relevance", {}).get(name)
TokenMatched(r) == Truthy(r.meta.relevance.d.token_match)
CategoryMatched(r) == Truthy(r.meta.relevance.d.category_match)

\* the token requirement left out
_apply_strict_filters_TokenIgnored(results, intent, require_token, require_category) ==
    IF require_category /\ has_category_path(intent)
    THEN SelectSeq(results, CategoryMatched) ELSE results

\* the filters applied whenever they are requested
_apply_strict_filters_Unguarded(results, intent, require_token, require_category) ==
    LET by_token == IF require_token
                    THEN SelectSeq(results, TokenMatched) ELSE results
    IN  IF require_category
        THEN SelectSeq(by_token, CategoryMatched) ELSE by_token

_apply_strict_filters(results, intent, require_token, require_category) ==
    LET by_token == IF require_token /\ intent.tokens # {}
                    THEN SelectSeq(results, TokenMatched) ELSE results
    IN  IF require_category /\ has_category_path(intent)
        THEN SelectSeq(by_token, CategoryMatched) ELSE by_token

(***************************************************************************)
(* retrieve_similar_tickets.                                               *)
(***************************************************************************)
\* lines 374-382: chroma_collection() returns the collection or raises
retrieve_similar_tickets ==
    /\ r_pc = "call"
    /\ \E connected \in BOOLEAN :
          r_pc' = IF connected THEN "query" ELSE "raised"
    /\ UNCHANGED <<r_args, r_coll, r_attempt, r_queries, r_kept, r_resolved,
                   r_reranked, r_return, agent_cache, responder_cache>>
    /\ UNCHANGED <<gvars, pvars, cvars>>

\* the next round of `for where, note in attempts`, or `return []` after
\* the last
NextFilter ==
    IF r_attempt < Len(Attempts)
    THEN /\ r_attempt' = r_attempt + 1
         /\ r_pc' = "query"
         /\ UNCHANGED r_return
    ELSE /\ r_pc' = "done"
         /\ r_return' = <<>>
         /\ UNCHANGED r_attempt

\* the error of the tiny fallback reaches the caller
AbandonAttempt_Propagates ==
    /\ r_pc' = "raised"
    /\ UNCHANGED <<r_attempt, r_return>>

\* lines 397-399: the tiny fallback failed too; `continue`
AbandonAttempt == NextFilter

\* every attempt is used up before anything is returned
FirstUsable_Never(kept) == FALSE

\* line 403: `if kept:`
FirstUsable(kept) == kept # <<>>

\* lines 401-405: a query returned res
UseResult(res) ==
    LET kept == Kept(_triples(res), Threshold(r_args.max_distance)) IN
    IF FirstUsable(kept)
    THEN /\ r_kept' = SortByRaw(kept)
         /\ r_pc' = "resolve"
         /\ UNCHANGED <<r_attempt, r_return>>
    ELSE /\ NextFilter
         /\ UNCHANGED r_kept

QueryRecord(kind, where, n, ok, res) ==
    [kind |-> kind, where |-> where, n |-> n, ok |-> ok,
     keys |-> IF ok THEN SeqToSet(res) ELSE {}]

\* lines 385-387: _query(coll, query_text, top_n, where)
Query ==
    /\ r_pc = "query"
    /\ \E count_ok \in BOOLEAN, ok \in BOOLEAN :
          LET where == Attempts[r_attempt]
              count == IF count_ok
                       THEN [ok |-> TRUE, i |-> Cardinality(r_coll)]
                       ELSE [ok |-> FALSE]
              n == _compute_n_results(count, r_args.top_n)
              res == StoreQuery(r_coll, where, n)
          IN  /\ r_queries' = Append(r_queries,
                                     QueryRecord("primary", where, n, ok, res))
              /\ IF ok THEN UseResult(res)
                 ELSE /\ r_pc' = "fallback"
                      /\ UNCHANGED <<r_attempt, r_kept, r_return>>
    /\ UNCHANGED <<r_args, r_coll, r_resolved, r_reranked, agent_cache,
                   responder_cache>>
    /\ UNCHANGED <<gvars, pvars, cvars>>

\* lines 388-399: the tiny fallback, coll.query(n_results=QUERY_TOP_N_MIN)
TinyFallback ==
    /\ r_pc = "fallback"
    /\ \E ok \in BOOLEAN :
          LET where == Attempts[r_attempt]
              res == StoreQuery(r_coll, where, QUERY_TOP_N_MIN)
          IN  /\ r_queries' = Append(r_queries,
                     QueryRecord("tiny", where, QUERY_TOP_N_MIN, ok, res))
              /\ IF ok THEN UseResult(res)
                 ELSE /\ AbandonAttempt
                      /\ UNCHANGED r_kept
    /\ UNCHANGED <<r_args, r_coll, r_resolved, r_reranked, agent_cache,
                   responder_cache>>
    /\ UNCHANGED <<gvars, pvars, cvars>>

\* lines 405-412: _resolve_assigned_agent on the next kept result; after the
\* last one the rerank, the strict filters and the return
ResolveAgent ==
    /\ r_pc = "resolve"
    /\ LET result == r_kept[Len(r_resolved) + 1]
           plan == ResolvePlan[result.key]
           tid == plan.tid
       IN  \E ticket_rid \in TicketLookups(plan, responder_cache) :
           \E agent_name \in AgentLookups(ResponderOf(plan, ticket_rid),
                                          agent_cache) :
              LET rid == ResponderOf(plan, ticket_rid)
                  resolved == Append(r_resolved,
                      [result EXCEPT !.meta =
                          _resolve_assigned_agent(@, rid, agent_name)])
                  intent == EffectiveIntent(r_args.intent)
                  reranked == _rerank_results(resolved, intent)
              IN  /\ responder_cache' =
                         IF tid = None THEN responder_cache
                         ELSE CacheInsert(responder_cache, tid.i, ticket_rid)
                  /\ agent_cache' =
                         IF rid = None THEN agent_cache
                         ELSE CacheInsert(agent_cache, rid.i, agent_name)
                  /\ r_resolved' = resolved
                  /\ IF Len(resolved) = Len(r_kept)
                     THEN /\ r_reranked' = reranked
                          /\ r_return' = _apply_strict_filters(
                                             reranked, intent,
                                             r_args.require_token_match,
                                             r_args.require_category_match)
                          /\ r_pc' = "done"
                     ELSE UNCHANGED <<r_reranked, r_return, r_pc>>
    /\ UNCHANGED <<r_args, r_coll, r_attempt, r_queries, r_kept>>
    /\ UNCHANGED <<gvars, pvars, cvars>>

(***************************************************************************)
(* Specifications.                                                         *)
(***************************************************************************)
\* the sequences of at most n different elements of S
ListsOf(S, n) ==
    UNION {{l \in [1..m -> S] : \A i, j \in 1..m : i # j => l[i] # l[j]} :
           m \in 0..n}

LimitArgs == {None, PyInt(-1), PyInt(0), PyInt(1)}

NoCache == [g \in {} |-> ""]

GatherIdle ==
    /\ g_pc = "call"
    /\ tickets_to_fetch = <<>>
    /\ max_workers = 0
    /\ task = <<>>
    /\ contexts = <<>>
    /\ g_return = <<>>
    /\ group_cache = NoCache

\* no pure function is called
PureIdle ==
    /\ p_pc = "idle"
    /\ p_args = None
    /\ p_result = None

\* retrieve_similar_tickets is not called
RetrieveIdle ==
    /\ r_args = [top_n |-> None, max_distance |-> None, intent |-> None,
                 require_token_match |-> FALSE,
                 require_category_match |-> FALSE]
    /\ r_coll = {}
    /\ r_pc = "idle"
    /\ r_attempt = 1
    /\ r_queries = <<>>
    /\ r_kept = <<>>
    /\ r_resolved = <<>>
    /\ r_reranked = <<>>
    /\ r_return = <<>>
    /\ agent_cache = NoCache
    /\ responder_cache = NoCache

\* a call of gather_ticket_contexts on any short list of search results
Init ==
    /\ g_results \in ListsOf(SmallKeys, MaxResults)
    /\ g_limit \in LimitArgs
    /\ fault_cap = FETCH_ATTEMPTS * MaxResults
    /\ GatherIdle
    /\ VocabularyUnused
    /\ RetrieveIdle
    /\ PureIdle

\* a call on a list with more tickets than the pool has workers
PoolList == <<6, 7, 8, 1, 9, 10, 11>>

InitPool ==
    /\ g_results = PoolList
    /\ g_limit = None
    /\ fault_cap = PoolFaults
    /\ GatherIdle
    /\ VocabularyUnused
    /\ RetrieveIdle
    /\ PureIdle

\* calls that differ in the limit: none, negative, zero, below the cap and
\* above it, on lists with and without items that have no usable ticket id
LimitLists == {PoolList, <<4>> \o PoolList, <<4, 1, 5, 2>>}

RequestedLimits ==
    {None, PyInt(0 - 1), PyInt(0), PyInt(2), PyInt(MAX_SIMILAR_TICKETS + 1)}

InitLimit ==
    /\ g_results \in LimitLists
    /\ g_limit \in RequestedLimits
    /\ fault_cap = PoolFaults
    /\ GatherIdle
    /\ VocabularyUnused
    /\ RetrieveIdle
    /\ PureIdle

Next ==
    \/ gather_ticket_contexts
    \/ \E i \in DOMAIN task : WorkerStart(i)
    \/ \E i \in DOMAIN task : FetchAttempt(i)
    \/ \E i \in DOMAIN task : GroupLookup(i)
    \/ \E i \in DOMAIN task : Collect(i)
    \/ GatherReturn

Spec == Init /\ [][Next]_vars

SpecPool == InitPool /\ [][Next]_vars

SpecLimit == InitLimit /\ [][Next]_vars

\* the caller's thread and the pool's threads keep being scheduled, and
\* every request ends (session.get has a timeout) as every sleep does
SpecLive == Init /\ [][Next]_vars /\ WF_vars(Next)

\* gather_ticket_contexts is not called
GatherUnused ==
    /\ g_results = <<>>
    /\ g_limit = None
    /\ g_pc = "idle"
    /\ fault_cap = 0
    /\ tickets_to_fetch = <<>>
    /\ max_workers = 0
    /\ task = <<>>
    /\ contexts = <<>>
    /\ g_return = <<>>
    /\ group_cache = NoCache

\* a call of retrieve_similar_tickets on any small collection
InitRetrieve ==
    /\ r_args \in [top_n : TopNArgs, max_distance : MaxDistanceArgs,
                    intent : IntentArgs, require_token_match : BOOLEAN,
                    require_category_match : BOOLEAN]
    /\ r_coll \in {S \in SUBSET StoreKeys : Cardinality(S) <= MaxColl}
    /\ r_pc = "call"
    /\ r_attempt = 1
    /\ r_queries = <<>>
    /\ r_kept = <<>>
    /\ r_resolved = <<>>
    /\ r_reranked = <<>>
    /\ r_return = <<>>
    /\ agent_cache = NoCache
    /\ responder_cache = NoCache
    /\ GatherUnused
    /\ VocabularyUnused
    /\ PureIdle

NextRetrieve ==
    \/ retrieve_similar_tickets
    \/ Query
    \/ TinyFallback
    \/ ResolveAgent

SpecRetrieve == InitRetrieve /\ [][NextRetrieve]_vars

\* the intents and signals _adjust_distance is called with
ScoreIntents == {EffectiveIntent(i) : i \in IntentArgs}

ScoreSignals ==
    {ResultSignals(t, c, h) : t \in BOOLEAN, c \in BOOLEAN, h \in 0..MaxHits}

\* a call of _adjust_distance on any distance, intent and signals
InitScore ==
    /\ p_pc = "call"
    /\ p_args \in [dist : (0 - NegDistance)..MaxDistance,
                    intent : ScoreIntents, signals : ScoreSignals]
    /\ p_result = None
    /\ GatherUnused
    /\ VocabularyUnused
    /\ RetrieveIdle

CallAdjustDistance ==
    /\ p_pc = "call"
    /\ p_result' = PyFloat(_adjust_distance(p_args.dist, p_args.intent,
                                            p_args.signals))
    /\ p_pc' = "done"
    /\ UNCHANGED <<p_args, gvars, rvars, cvars>>

NextScore == CallAdjustDistance

SpecScore == InitScore /\ [][NextScore]_vars

(***************************************************************************)
(* app.py: the percentile buckets.                                         *)
(***************************************************************************)
\* halves rounded up
PyRound_HalfUp(num, den) == (2 * num + den) \div (2 * den)

\* round(num / den) for num >= 0: Python rounds halves to the even neighbour
PyRound(num, den) ==
    LET q == num \div den
        r == num % den
    IN  IF 2 * r < den THEN q
        ELSE IF 2 * r > den THEN q + 1
        ELSE IF q % 2 = 0 THEN q ELSE q + 1

\* list[a:b] for 0 <= a and b <= len(list): empty when b <= a
PySlice(list, a, b) == SubSeq(list, a + 1, b)

\* each boundary rounded on its own, none raised to the one before
_bucket_by_percentile_Unclamped(results) ==
    IF results = <<>>
    THEN [most |-> <<>>, similar |-> <<>>, related |-> <<>>, loose |-> <<>>]
    ELSE LET n == Len(results)
             top_end == Max(1, PyRound(n * 20, 100))
             sim_end == PyRound(n * 50, 100)
             rel_end == PyRound(n * 80, 100)
         IN  [most |-> PySlice(results, 0, top_end),
              similar |-> PySlice(results, top_end, sim_end),
              related |-> PySlice(results, sim_end, rel_end),
              loose |-> PySlice(results, rel_end, n)]

_bucket_by_percentile(results) ==
    IF results = <<>>
    THEN [most |-> <<>>, similar |-> <<>>, related |-> <<>>, loose |-> <<>>]
    ELSE LET n == Len(results)
             top_end == Max(1, PyRound(n * 20, 100))
             sim_end == Max(top_end, PyRound(n * 50, 100))
             rel_end == Max(sim_end, PyRound(n * 80, 100))
         IN  [most |-> PySlice(results, 0, top_end),
              similar |-> PySlice(results, top_end, sim_end),
              related |-> PySlice(results, sim_end, rel_end),
              loose |-> PySlice(results, rel_end, n)]

\* the results of the lists: two different ones, which a list may repeat
BucketItems == {1, 2}

\* a call of _bucket_by_percentile on any list of at most MaxItems results
InitBucket ==
    /\ p_pc = "call"
    /\ p_args \in UNION {[1..n -> BucketItems] : n \in 0..MaxItems}
    /\ p_result = None
    /\ GatherUnused
    /\ VocabularyUnused
    /\ RetrieveIdle

CallBucketByPercentile ==
    /\ p_pc = "call"
    /\ p_result' = _bucket_by_percentile(p_args)
    /\ p_pc' = "done"
    /\ UNCHANGED <<p_args, gvars, rvars, cvars>>

NextBucket == CallBucketByPercentile

SpecBucket == InitBucket /\ [][NextBucket]_vars

(***************************************************************************)
(* Properties of gather_ticket_contexts.                                   *)
(***************************************************************************)
Done == g_pc = "done"

IsSortedByDistance(list) ==
    \A i, j \in 1..Len(list) : i < j => list[i].distance <= list[j].distance

\* C1: whatever the list, the limit, the responses and the order in which
\* the fetches complete, the list gather_ticket_contexts returns is in
\* non-decreasing order of distance.
C1_OutputSortedByDistance == Done => IsSortedByDistance(g_return)

\* a return whose contexts were collected out of distance order, one of them
\* a fallback, one live
C1_Witness ==
    /\ Done
    /\ Len(g_return) = 2
    /\ ~IsSortedByDistance(contexts)
    /\ \E i, j \in DOMAIN contexts :
          contexts[i].notes_incomplete /\ ~contexts[j].notes_incomplete

\* what the as_completed loop owes the caller for future i
Owed(i) ==
    IF task[i].st = "raised" THEN FallbackContexts[tickets_to_fetch[i].key].ctx
    ELSE task[i].result

Occurrences(list, x) == Cardinality({p \in DOMAIN list : list[p] = x})

\* C2: gather_ticket_contexts never raises; it returns one context per
\* scheduled ticket, the fallback (notes_incomplete) for each fetch that
\* failed and the live one for each that succeeded, whatever the siblings did.
C2_FailuresIsolated ==
    /\ g_pc # "raised"
    /\ Done =>
         /\ Len(g_return) = Len(tickets_to_fetch)
         /\ \A i \in DOMAIN task :
               /\ task[i].st \in {"ok", "raised"}
               /\ Owed(i).notes_incomplete = (task[i].st = "raised")
               /\ Occurrences(g_return, Owed(i))
                    = Cardinality({j \in DOMAIN task : Owed(j) = Owed(i)})

\* a return after one fetch failed and its sibling succeeded
C2_Witness ==
    /\ Done
    /\ \E i, j \in DOMAIN task : task[i].st = "raised" /\ task[j].st = "ok"

\* what the fallback must hold for the search results 1, 2 and 3, worked out
\* by hand from their metadata
ExpectedFallback(k) ==
    CASE k = 1 -> [ticket_id |-> 101, subject |-> "VPN drops",
                   description |-> "vpn drops on wifi",
                   category |-> PyStr("Network"), subcategory |-> PyStr("VPN"),
                   item |-> None, distance |-> 200]
      [] k = 2 -> [ticket_id |-> 102, subject |-> "",
                   description |-> "outlook crash on start",
                   category |-> None, subcategory |-> PyStr("Email"),
                   item |-> PyStr("Outlook"), distance |-> 100]
      [] k = 3 -> [ticket_id |-> 103, subject |-> "Printer jam",
                   description |-> "printer jam",
                   category |-> None, subcategory |-> None,
                   item |-> None, distance |-> 200]

IsFallbackOf(c, k) ==
    /\ c.notes_incomplete
    /\ [f \in DOMAIN ExpectedFallback(k) |-> c[f]] = ExpectedFallback(k)

\* C3: a fetch that failed on all three attempts leaves the context built
\* from the search result: its ticket id, subject, category path, document
\* text as description and distance, with notes_incomplete set.
C3_FallbackFromSearchResult ==
    \A i \in DOMAIN task :
        task[i].st = "raised" =>
            /\ task[i].gets = FETCH_ATTEMPTS
            /\ ~task[i].got_ok
            /\ task[i].collected =>
                 Occurrences(contexts, FallbackContexts[tickets_to_fetch[i].key].ctx) = 1
            /\ task[i].collected =>
                 \E p \in DOMAIN contexts :
                     IsFallbackOf(contexts[p], tickets_to_fetch[i].key)
            /\ Done =>
                 \E p \in DOMAIN g_return :
                     IsFallbackOf(g_return[p], tickets_to_fetch[i].key)

\* a return after one fetch met 429/503 three times and another an error
\* three times
C3_Witness ==
    /\ Done
    /\ \E i, j \in DOMAIN task :
          /\ task[i].st = "raised" /\ task[i].rates = FETCH_ATTEMPTS
          /\ task[j].st = "raised" /\ task[j].rates = 0

\* what the live context must hold for the tickets 101, 102 and 103, worked
\* out by hand from the API payloads
ExpectedLive(tid) ==
    CASE tid = 101 -> [ticket_id |-> 101, subject |-> "VPN drops on Wi-Fi",
                       description |-> "VPN drops when roaming",
                       category |-> PyStr("Network"), distance |-> 200]
      [] tid = 102 -> [ticket_id |-> 102, subject |-> "Outlook crash",
                       description |-> "Outlook crashes on start",
                       category |-> PyStr("Software"), distance |-> 100]
      [] tid = 103 -> [ticket_id |-> 0, subject |-> "Printer jam, tray 2",
                       description |-> "",
                       category |-> None, distance |-> 200]

IsLiveOf(c, tid) ==
    /\ ~c.notes_incomplete
    /\ [f \in DOMAIN ExpectedLive(tid) |-> c[f]] = ExpectedLive(tid)

\* C4: a fetch that gets a successful response on any of its three attempts,
\* the third after two rate limits included, yields the context built from
\* that payload, with notes_incomplete unset, never the fallback.
C4_SuccessYieldsLiveContext ==
    \A i \in DOMAIN task :
        task[i].got_ok =>
            /\ task[i].st \in {"lookup", "ok"}
            /\ task[i].st = "ok" =>
                 IsLiveOf(task[i].result, tickets_to_fetch[i].ticket_id)
            /\ task[i].collected =>
                 \E p \in DOMAIN contexts :
                     IsLiveOf(contexts[p], tickets_to_fetch[i].ticket_id)
            /\ Done =>
                 \E p \in DOMAIN g_return :
                     IsLiveOf(g_return[p], tickets_to_fetch[i].ticket_id)

\* a return after a fetch met a rate limit twice and succeeded the third time
C4_Witness ==
    /\ Done
    /\ \E i \in DOMAIN task :
          /\ task[i].st = "ok"
          /\ task[i].gets = FETCH_ATTEMPTS
          /\ task[i].rates = 2
          /\ task[i].slept = <<RATE_LIMIT_SLEEP, 2 * RATE_LIMIT_SLEEP>>

\* C5: at every moment the fetches being executed number at most
\* min(5, scheduled tickets).
C5_BoundedConcurrency ==
    Cardinality(Running) <= Min(5, Len(tickets_to_fetch))

\* five fetches in flight while a sixth scheduled ticket waits
C5_Witness ==
    /\ Cardinality(Running) = 5
    /\ Len(tickets_to_fetch) = 6
    /\ \E i \in DOMAIN task : task[i].st = "queued"

(***************************************************************************)
(* Properties of retrieve_similar_tickets.                                 *)
(***************************************************************************)
Returned == r_pc = "done"

\* the threshold the call asked for, in thousandths
ThresholdInForce ==
    IF r_args.max_distance = None THEN 550 ELSE r_args.max_distance.m

FilterOrder == <<"incident", "Incident", "none">>

FilterName(where) == IF where = None THEN "none" ELSE where.d.type.s

FilterIndex(where) ==
    CHOOSE i \in DOMAIN FilterOrder : FilterOrder[i] = FilterName(where)

IsPrimary(q) == q.kind = "primary"

Primaries == SelectSeq(r_queries, IsPrimary)

\* a query that answered with a document at or under the threshold
Usable(q) == q.ok /\ \E k \in q.keys : StoreDist(k) <= ThresholdInForce

LastQuery == r_queries[Len(r_queries)]

ReturnedKeys == {r_return[i].key : i \in DOMAIN r_return}

\* C6: the filters are tried in the order type='incident', type='Incident',
\* none; no query follows the first one that answers with a document at or
\* under the threshold; every returned item is a document of that one
\* answer, and without a usable answer all three filters are tried and the
\* result is empty.
C6_FirstUsableFilterOnly ==
    /\ Len(Primaries) <= Len(FilterOrder)
    /\ \A p \in DOMAIN Primaries :
          FilterName(Primaries[p].where) = FilterOrder[p]
    /\ \A p \in DOMAIN r_queries :
          Usable(r_queries[p]) => p = Len(r_queries)
    /\ Returned =>
          IF r_queries # <<>> /\ Usable(LastQuery)
          THEN /\ ReturnedKeys \subseteq LastQuery.keys
               /\ Len(r_return) = Cardinality(ReturnedKeys)
               /\ ~r_args.require_token_match
                  /\ ~r_args.require_category_match =>
                     ReturnedKeys = {k \in LastQuery.keys :
                                        StoreDist(k) <= ThresholdInForce}
          ELSE /\ r_return = <<>>
               /\ Len(Primaries) = Len(FilterOrder)

\* the second filter answered and the call returned its document, although
\* the collection holds another document under the threshold that only the
\* third filter would have found
C6_Witness ==
    /\ Returned
    /\ r_return # <<>>
    /\ Len(Primaries) = 2
    /\ r_queries[1].ok
    /\ \E k \in r_coll \ LastQuery.keys : StoreDist(k) <= ThresholdInForce

\* C7: no query error reaches the caller: a failed query is followed by one
\* retry with the same filter and QUERY_TOP_N_MIN results, a failed retry by
\* the query of the next filter, and after the failed retry of the last
\* filter the call has returned the empty list.
C7_QueryErrorsContained ==
    /\ r_pc = "raised" => r_queries = <<>>
    /\ \A p \in DOMAIN r_queries :
          LET q == r_queries[p] IN
          /\ q.kind = "tiny" =>
                /\ p > 1
                /\ r_queries[p - 1].kind = "primary"
                /\ ~r_queries[p - 1].ok
                /\ r_queries[p - 1].where = q.where
                /\ q.n = 50
          /\ ~q.ok /\ q.kind = "primary" =>
                IF p < Len(r_queries)
                THEN r_queries[p + 1].kind = "tiny"
                ELSE r_pc = "fallback"
          /\ ~q.ok /\ q.kind = "tiny" =>
                IF p < Len(r_queries)
                THEN /\ r_queries[p + 1].kind = "primary"
                     /\ FilterIndex(r_queries[p + 1].where)
                           = FilterIndex(q.where) + 1
                ELSE IF FilterName(q.where) = "none"
                     THEN Returned /\ r_return = <<>>
                     ELSE r_pc = "query"

\* all six queries failed, the first with a result count other than the
\* minimum, on a collection that holds a document under the threshold
C7_Witness ==
    /\ Returned
    /\ r_return = <<>>
    /\ Len(r_queries) = 6
    /\ \A p \in DOMAIN r_queries : ~r_queries[p].ok
    /\ r_queries[1].n # 50
    /\ \E k \in r_coll : StoreDist(k) <= ThresholdInForce

\* C8: every returned item carries its document's raw distance, and that
\* distance is at most max_distance when one was supplied and at most
\* SEARCH_MAX_DISTANCE otherwise.
C8_WithinThreshold ==
    Returned =>
       \A i \in DOMAIN r_return :
          /\ r_return[i].dist = StoreDist(r_return[i].key)
          /\ r_return[i].dist <= ThresholdInForce

\* a supplied max_distance below the default kept one document of the
\* answer and dropped another that the default would have kept
C8_Witness ==
    /\ Returned
    /\ r_return # <<>>
    /\ r_args.max_distance # None
    /\ \E k \in LastQuery.keys :
          StoreDist(k) > ThresholdInForce /\ StoreDist(k) <= 550

AttachedAdjusted(r) == r.meta.relevance.d.adjusted_distance.m

\* the intent the call works with
IntentInForce ==
    IF r_args.intent = None THEN QueryIntent({}, {}, None, None, None)
    ELSE r_args.intent

\* C9: the returned list is in non-decreasing order of (adjusted distance,
\* raw distance); the adjusted distance attached to an item is
\* _adjust_distance of its raw distance and its signals for the intent; an
\* item with a larger raw distance precedes one with a smaller only when
\* its adjusted distance is strictly smaller.
C9_OrderedByAdjustedThenRaw ==
    Returned =>
       /\ \A i \in DOMAIN r_return :
             AttachedAdjusted(r_return[i]) =
                _adjust_distance(r_return[i].dist, IntentInForce,
                                 Signals[r_return[i].key][IntentInForce])
       /\ \A i, j \in DOMAIN r_return :
             i < j =>
                /\ \/ AttachedAdjusted(r_return[i]) < AttachedAdjusted(r_return[j])
                   \/ /\ AttachedAdjusted(r_return[i]) = AttachedAdjusted(r_return[j])
                      /\ r_return[i].dist <= r_return[j].dist
                /\ r_return[i].dist > r_return[j].dist =>
                      AttachedAdjusted(r_return[i]) < AttachedAdjusted(r_return[j])

\* an item is returned ahead of one with a smaller raw distance
C9_Witness ==
    /\ Returned
    /\ \E i, j \in DOMAIN r_return :
          i < j /\ r_return[i].dist > r_return[j].dist

HasTokenMatch(r) == r.meta.relevance.d.token_match = PyBool(TRUE)
HasCategoryMatch(r) == r.meta.relevance.d.category_match = PyBool(TRUE)

NoTokens == IntentInForce.tokens = {}

NoCategoryPath ==
    \A v \in {IntentInForce.category, IntentInForce.subcategory,
              IntentInForce.item} : v \in {None, PyStr("")}

\* C10: with require_category set and an intent without a category path
\* the category requirement removes nothing from the reranked list, and
\* with require_token set and an intent without tokens the token
\* requirement removes nothing: what is returned is the reranked list
\* filtered by the other requirement alone, in the same order.
C10_StrictFilterNeedsSignal ==
    Returned =>
       /\ r_args.require_category_match /\ NoCategoryPath =>
             r_return = IF r_args.require_token_match /\ ~NoTokens
                        THEN SelectSeq(r_reranked, HasTokenMatch)
                        ELSE r_reranked
       /\ r_args.require_token_match /\ NoTokens =>
             r_return = IF r_args.require_category_match /\ ~NoCategoryPath
                        THEN SelectSeq(r_reranked, HasCategoryMatch)
                        ELSE r_reranked

\* both requirements set, an intent with neither tokens nor a category path,
\* and the reranked items, none of which matches, all returned
C10_Witness ==
    /\ Returned
    /\ r_args.require_category_match
    /\ r_args.require_token_match
    /\ NoTokens
    /\ NoCategoryPath
    /\ r_reranked # <<>>
    /\ \A i \in DOMAIN r_reranked :
          ~HasTokenMatch(r_reranked[i]) /\ ~HasCategoryMatch(r_reranked[i])
    /\ r_return = r_reranked

\* the category requirement is in force
CategoryRequired == r_args.require_category_match /\ ~NoCategoryPath

\* C11: with require_token_match set and an intent that has a token, the
\* token requirement keeps exactly the reranked items whose
\* relevance.token_match is true, in their order: they are the returned
\* list when the category requirement is not in force, and otherwise the
\* returned list is their sublist of category matches.
C11_TokenFilterKeepsMatches ==
    Returned /\ r_args.require_token_match /\ ~NoTokens =>
       LET kept == SelectSeq(r_reranked, HasTokenMatch) IN
       /\ \A i \in DOMAIN r_return : HasTokenMatch(r_return[i])
       /\ ~CategoryRequired => r_return = kept
       /\ CategoryRequired => r_return = SelectSeq(kept, HasCategoryMatch)

\* of two reranked items the one whose text holds the intent's token is
\* returned and the other is not
C11_Witness ==
    /\ Returned
    /\ r_args.require_token_match
    /\ ~r_args.require_category_match
    /\ ~NoTokens
    /\ Len(r_reranked) = 2
    /\ Len(r_return) = 1
    /\ HasTokenMatch(r_return[1])
    /\ \E i \in DOMAIN r_reranked : ~HasTokenMatch(r_reranked[i])

(***************************************************************************)
(* Properties of _adjust_distance.                                         *)
(***************************************************************************)
Adjusted == p_pc = "done"

HasTokens == p_args.intent.tokens # {}

HasPath ==
    \E v \in {p_args.intent.category, p_args.intent.subcategory,
              p_args.intent.item} : v \notin {None, PyStr("")}

NothingMatches ==
    /\ ~p_args.signals.token_match
    /\ ~p_args.signals.category_match
    /\ p_args.signals.keyword_hits = 0

EverythingMatches ==
    /\ p_args.signals.token_match
    /\ p_args.signals.category_match
    /\ p_args.signals.keyword_hits > 0

\* C12: for a distance d >= 0, an intent with a token and signals that
\* match nothing, _adjust_distance returns more than d.
C12_NoMatchIsPenalized ==
    Adjusted /\ p_args.dist >= 0 /\ HasTokens /\ NothingMatches =>
       p_result.m > p_args.dist

\* a no-match call at distance 0 with a category path: both penalties
C12_Witness ==
    /\ Adjusted
    /\ p_args.dist = 0
    /\ HasTokens
    /\ HasPath
    /\ NothingMatches
    /\ p_result.m = 90

\* the statement of C13 as given: a full match returns less than d for
\* every d >= 0, d = 0 included
C13_AsClaimed ==
    Adjusted /\ p_args.dist >= 0 /\ HasTokens /\ EverythingMatches =>
       p_result.m < p_args.dist

\* C13: for an intent with a token and full-match signals, _adjust_distance
\* returns less than d for every d > 0, and returns 0 for d = 0.
C13_FullMatchIsRewarded ==
    Adjusted /\ HasTokens /\ EverythingMatches =>
       /\ p_args.dist > 0 => p_result.m < p_args.dist
       /\ p_args.dist = 0 => p_result.m = 0

\* a full-match call at a distance under the bonus returns 0
C13_Witness ==
    /\ Adjusted
    /\ HasTokens
    /\ EverythingMatches
    /\ p_args.dist = 30
    /\ p_result.m = 0

\* distance + penalties - bonuses, from the weights
Unclamped ==
    p_args.dist
    + (IF HasTokens /\ ~p_args.signals.token_match THEN 40 ELSE 0)
    + (IF HasPath /\ ~p_args.signals.category_match THEN 50 ELSE 0)
    - (IF HasTokens /\ p_args.signals.token_match THEN 50 ELSE 0)
    - (IF HasPath /\ p_args.signals.category_match THEN 80 ELSE 0)
    - 15 * (IF p_args.signals.keyword_hits > 3 THEN 3
            ELSE p_args.signals.keyword_hits)

\* C14: _adjust_distance never returns a negative value: the result is
\* distance + penalties - bonuses when that is positive and 0 otherwise.
C14_NeverNegative ==
    Adjusted =>
       /\ p_result.m >= 0
       /\ p_result.m = IF Unclamped > 0 THEN Unclamped ELSE 0

\* a call whose bonuses exceed the distance returns 0
C14_Witness ==
    /\ Adjusted
    /\ p_args.dist > 0
    /\ Unclamped < 0
    /\ p_result.m = 0

\* C15: the category bonus exceeds the token bonus, the category penalty
\* exceeds the token penalty, and each of the four exceeds the keyword
\* bonus of the call, min(keyword_hits, KEYWORD_CAP) * KEYWORD_BONUS.
C15_WeightsOrdered ==
    Adjusted =>
       LET keyword_bonus == Min(p_args.signals.keyword_hits, KEYWORD_CAP)
                            * KEYWORD_BONUS
       IN  /\ CATEGORY_BONUS > TOKEN_BONUS
           /\ CATEGORY_PENALTY > TOKEN_PENALTY
           /\ \A w \in {TOKEN_BONUS, TOKEN_PENALTY, CATEGORY_BONUS,
                         CATEGORY_PENALTY} : w > keyword_bonus

(***************************************************************************)
(* search_tickets.py: one call of _compute_n_results.                      *)
(***************************************************************************)
\* sizes coll.count() reports and values of top_n, on both sides of each of
\* QUERY_TOP_N_MIN, QUERY_TOP_N_DEFAULT and QUERY_TOP_N_CAP
CollectionSizes == {0, 1, 49, 50, 51, 999, 1000, 1001, 1500, 1999, 2000,
                    2001, 3000}

CountOutcomes ==
    {[ok |-> FALSE]} \cup {[ok |-> TRUE, i |-> n] : n \in CollectionSizes}

RequestedTopN ==
    {None} \cup {PyInt(n) : n \in {0 - 5, 0} \cup (CollectionSizes \ {0})}

InitCount ==
    /\ p_pc = "call"
    /\ p_args \in [count : CountOutcomes, top_n : RequestedTopN]
    /\ p_result = None
    /\ GatherUnused
    /\ VocabularyUnused
    /\ RetrieveIdle

CallComputeNResults ==
    /\ p_pc = "call"
    /\ p_result' = PyInt(_compute_n_results(p_args.count, p_args.top_n))
    /\ p_pc' = "done"
    /\ UNCHANGED <<p_args, gvars, rvars, cvars>>

NextCount == CallComputeNResults

SpecCount == InitCount /\ [][NextCount]_vars

(***************************************************************************)
(* search_intent.py: the vocabulary cache.                                 *)
(***************************************************************************)
InitVocabulary ==
    /\ p_pc = "call"
    /\ p_args = None
    /\ p_result = None
    /\ categories_json \in [Paths -> FileContents]
    /\ known_tokens_cache = None
    /\ load_history = NoLoads
    /\ GatherUnused
    /\ RetrieveIdle

NextVocabulary ==
    \/ \E path \in Paths : ExtractQueryIntent(path)
    \/ \E path \in Paths, data \in FileContents : ChangeResource(path, data)
    \/ cache_clear

SpecVocabulary == InitVocabulary /\ [][NextVocabulary]_vars

(***************************************************************************)
(* search_intent.py: one call of annotate_result_with_tokens.              *)
(***************************************************************************)
\* the category path of a result's metadata, as stored (not normalized)
PathMetadata ==
    [category : {None, PyStr("Network"), PyStr(" email ")},
     subcategory : {None, PyStr("VPN"), PyStr("Wifi")},
     item : {None, PyStr("Token"), PyStr("cable")}]

\* intents with every combination of levels given and left out, one with an
\* empty category
PathIntents ==
    {QueryIntent({"vpn"}, {"drops"}, c, u, i) :
        c \in {None, PyStr(""), PyStr("network"), PyStr("email")},
        u \in {None, PyStr("vpn")},
        i \in {None, PyStr("token")}}

InitAnnotate ==
    /\ p_pc = "call"
    /\ p_args \in [document_text : {"VPN drops on wifi", ""},
                    metadata : PathMetadata, intent : PathIntents]
    /\ p_result = None
    /\ GatherUnused
    /\ VocabularyUnused
    /\ RetrieveIdle

CallAnnotateResult ==
    /\ p_pc = "call"
    /\ p_result' = annotate_result_with_tokens(p_args.document_text,
                                               p_args.metadata, p_args.intent)
    /\ p_pc' = "done"
    /\ UNCHANGED <<p_args, gvars, rvars, cvars>>

NextAnnotate == CallAnnotateResult

SpecAnnotate == InitAnnotate /\ [][NextAnnotate]_vars

(***************************************************************************)
(* search_intent.py: one call of extract_query_intent.                     *)
(***************************************************************************)
\* what categories.json can hold: the taxonomy of the repository's test, one
\* with names of several words and an item that is a number, one whose
\* category maps to a list, one that is not a mapping, and no file at all
Taxonomies ==
    {PyDict([c \in {"Software"} |->
               PyDict([u \in {"Revit"} |-> PyList(<<PyStr("Desktop")>>)])]),
     PyDict([c \in {"Remote Access"} |->
               PyDict([u \in {" VPN "} |->
                         PyList(<<PyStr("Wi-Fi"), PyInt(365)>>)])]),
     PyDict([c \in {"Hardware"} |-> PyList(<<PyStr("Laptop")>>)]),
     PyList(<<>>),
     None}

Queries ==
    {"Getting an access error when I open Revit",
     "REVIT vpn",
     "Remote Access fails on wi-fi",
     "laptop_bag Laptop 365",
     "can't login to Outlook",
     ""}

SeedMetadata ==
    {None,
     [category |-> PyStr("Software"), subcategory |-> PyStr(" Revit "),
      item |-> None],
     [category |-> PyStr(""), subcategory |-> None,
      item |-> PyStr("Remote Access")],
     [category |-> None, subcategory |-> None, item |-> None]}

InitIntent ==
    /\ p_pc = "call"
    /\ p_args \in [query : Queries, seed_metadata : SeedMetadata,
                    data : Taxonomies]
    /\ p_result = None
    /\ GatherUnused
    /\ VocabularyUnused
    /\ RetrieveIdle

CallExtractQueryIntent ==
    /\ p_pc = "call"
    /\ p_result' = extract_query_intent(p_args.query, p_args.seed_metadata,
                                        p_args.data)
    /\ p_pc' = "done"
    /\ UNCHANGED <<p_args, gvars, rvars, cvars>>

NextIntent == CallExtractQueryIntent

SpecIntent == InitIntent /\ [][NextIntent]_vars

(***************************************************************************)
(* Properties of _bucket_by_percentile.                                    *)
(***************************************************************************)
Bucketed == p_pc = "done"

\* C16: the four buckets, concatenated in the order most, similar,
\* related, loose, are the input list; their lengths sum to its length;
\* most is not empty when the input is not.
C16_BucketsPartitionInput ==
    Bucketed =>
       /\ p_result.most \o p_result.similar \o p_result.related
             \o p_result.loose = p_args
       /\ Len(p_result.most) + Len(p_result.similar) + Len(p_result.related)
             + Len(p_result.loose) = Len(p_args)
       /\ p_args # <<>> => p_result.most # <<>>

\* a single result lands in most and the other buckets are empty
C16_Witness ==
    /\ Bucketed
    /\ Len(p_args) = 1
    /\ p_result.most = p_args
    /\ p_result.similar = <<>>
    /\ p_result.related = <<>>
    /\ p_result.loose = <<>>

\* round(0.20 * N) and round(0.80 * N), which are never halfway
NearestFifth(n) == (2 * n + 5) \div 10
NearestFourFifths(n) == (8 * n + 5) \div 10

\* round(N / 2): for odd N the even one of the two neighbours
RoundedHalf(n) ==
    IF n % 2 = 0 THEN n \div 2
    ELSE IF ((n - 1) \div 2) % 2 = 0 THEN (n - 1) \div 2 ELSE (n + 1) \div 2

\* C17: for N > 0 results most ends at max(1, round(0.20*N)), similar at
\* round(0.50*N) and related at round(0.80*N), each at least the boundary
\* before it; N = 10 gives the sizes 2, 3, 3, 2; most and similar together
\* hold the first max(1, round(N/2)) results.
C17_RankBasedBoundaries ==
    Bucketed /\ p_args # <<>> =>
       LET n == Len(p_args)
           top == Max(1, NearestFifth(n))
           sim == Max(top, RoundedHalf(n))
           rel == Max(sim, NearestFourFifths(n))
       IN  /\ p_result.most = SubSeq(p_args, 1, top)
           /\ p_result.similar = SubSeq(p_args, top + 1, sim)
           /\ p_result.related = SubSeq(p_args, sim + 1, rel)
           /\ p_result.loose = SubSeq(p_args, rel + 1, n)
           /\ p_result.most \o p_result.similar
                 = SubSeq(p_args, 1, Max(1, RoundedHalf(n)))
           /\ n = 10 =>
                 /\ Len(p_result.most) = 2
                 /\ Len(p_result.similar) = 3
                 /\ Len(p_result.related) = 3
                 /\ Len(p_result.loose) = 2

\* ten results in buckets of 2, 3, 3 and 2
C17_Witness ==
    /\ Bucketed
    /\ Len(p_args) = 10
    /\ Len(p_result.most) = 2
    /\ Len(p_result.similar) = 3
    /\ Len(p_result.related) = 3
    /\ Len(p_result.loose) = 2

(***************************************************************************)
(* Properties of extract_query_intent.                                     *)
(***************************************************************************)
Extracted == p_pc = "done"

\* text occurs in s with no word character right before or right after it
Occurs(text, s) ==
    \E i \in 1..(Len(s) - Len(text) + 1) :
       /\ SubSeq(s, i, i + Len(text) - 1) = text
       /\ i = 1 \/ ~IsWordChar(SubSeq(s, i - 1, i - 1))
       /\ \/ i + Len(text) > Len(s)
          \/ ~IsWordChar(SubSeq(s, i + Len(text), i + Len(text)))

\* C18: every entry of the known vocabulary that appears in the query, in
\* any casing, is in the tokens of the intent in lower case; names of more
\* than one word included.
C18_VocabularyRoundTrip ==
    Extracted =>
       \A token \in _load_known_tokens(p_args.data) :
          Occurs(token, Lower(p_args.query)) => token \in p_result.tokens

QueryWords == SeqToSet(_iter_words(p_args.query))

\* C19: the keywords are exactly the normalized words of the query that are
\* longer than 3 characters and not stopwords; none of "error", "issue",
\* "problem", "access", "open", "login", "failed" is ever a keyword.
C19_KeywordsAreLongNonStopwords ==
    Extracted =>
       /\ \A word \in QueryWords \cup p_result.keywords :
             word \in p_result.keywords <=>
                /\ word \in QueryWords
                /\ Len(word) >= 4
                /\ word \notin _STOPWORDS
       /\ p_result.keywords \cap {"error", "issue", "problem", "access",
                                   "open", "login", "failed"} = {}
       /\ \A word \in p_result.keywords : word = Lower(Strip(word))

\* "vpn" is a word of the query and too short, "REVIT" is kept in lower case
C19_Witness ==
    /\ Extracted
    /\ p_args.query = "REVIT vpn"
    /\ p_result.keywords = {"revit"}

\* C20: for 'Getting an access error when I open Revit' and a vocabulary
\* holding "revit", "access" is a keyword and "revit" a token.
C20_AccessIsKeyword ==
    /\ Extracted
    /\ p_args.query = "Getting an access error when I open Revit"
    /\ "revit" \in _load_known_tokens(p_args.data)
    => /\ "access" \in p_result.keywords
       /\ "revit" \in p_result.tokens

(***************************************************************************)
(* Properties of _compute_n_results.                                       *)
(***************************************************************************)
Counted == p_pc = "done"

\* n brought into [QUERY_TOP_N_MIN, QUERY_TOP_N_CAP]
IntoQueryBounds(n) ==
    IF n < QUERY_TOP_N_MIN THEN QUERY_TOP_N_MIN
    ELSE IF n > QUERY_TOP_N_CAP THEN QUERY_TOP_N_CAP ELSE n

\* C21: a positive top_n is clamped into [QUERY_TOP_N_MIN, QUERY_TOP_N_CAP];
\* without top_n the size of the collection is clamped into the same
\* bounds (1500 documents give 1500); only when the size is unavailable or
\* zero is QUERY_TOP_N_DEFAULT used.
C21_SameBoundsForBoth ==
    Counted =>
       /\ p_args.top_n # None /\ p_args.top_n.i > 0 =>
             p_result.i = IntoQueryBounds(p_args.top_n.i)
       /\ p_args.top_n = None /\ p_args.count.ok /\ p_args.count.i > 0 =>
             p_result.i = IntoQueryBounds(p_args.count.i)
       /\ p_args.top_n = None /\ (~p_args.count.ok \/ p_args.count.i = 0) =>
             p_result.i = QUERY_TOP_N_DEFAULT

(***************************************************************************)
(* Properties of gather_ticket_contexts: the limit.                        *)
(***************************************************************************)
\* the item has a ticket id that int() accepts
Resolvable(k) ==
    LET ticket_id == SearchMeta(k).ticket_id
    IN  Truthy(ticket_id) /\ PyIntOf(ticket_id).ok

ResolvableItems == {p \in DOMAIN g_results : Resolvable(g_results[p])}

EffectiveLimit ==
    Min(IF g_limit = None THEN MAX_SIMILAR_TICKETS ELSE g_limit.i,
        MAX_SIMILAR_TICKETS)

\* C22: for a limit that is absent or not negative, the effective limit is
\* L = min(limit, or MAX_SIMILAR_TICKETS when there is none,
\* MAX_SIMILAR_TICKETS); the call returns, without raising, as many contexts
\* as min(L, number of items with a resolvable ticket id): the items
\* without one do not use up the limit.
C22_LimitCountsResolvableItems ==
    Done /\ (g_limit = None \/ g_limit.i >= 0) =>
       Len(g_return) = Min(EffectiveLimit, Cardinality(ResolvableItems))

\* a limit above the cap on a list that starts with an item without a ticket
\* id and has seven with one: six contexts
C22_Witness ==
    /\ Done
    /\ g_limit = PyInt(MAX_SIMILAR_TICKETS + 1)
    /\ ~Resolvable(g_results[1])
    /\ Cardinality(ResolvableItems) = MAX_SIMILAR_TICKETS + 1
    /\ Len(g_return) = MAX_SIMILAR_TICKETS

(***************************************************************************)
(* Arguments outside the contract.                                         *)
(***************************************************************************)
NegativeLimit == g_limit # None /\ g_limit.i < 0

NegativeTopN == r_args.top_n # None /\ r_args.top_n.i < 0

NegativeMaxDistance == r_args.max_distance # None /\ r_args.max_distance.m < 0

\* C23: gather_ticket_contexts called with a negative limit, and
\* retrieve_similar_tickets called with a negative max_distance or a
\* negative top_n, do not return a result (they raise).
C23_ContractViolationsRaise ==
    /\ Done => ~NegativeLimit
    /\ Returned => ~(NegativeTopN \/ NegativeMaxDistance)

(***************************************************************************)
(* The group-name cache under concurrent lookups.                          *)
(***************************************************************************)
\* the group id whose name the fetch of task i asked get_group_name for
GroupOf(i) == LookupGroup[tickets_to_fetch[i].ticket_id]

\* the fetch of task i has its context, with a name from get_group_name
GotGroupName(i) == task[i].st = "ok" /\ GroupOf(i) # 0 - 1

\* C24: under every interleaving of the worker threads, transient API
\* failures included, all lookups of one group id return the same name and
\* the cache holds that name.
C24_OneNamePerId ==
    \A i, j \in DOMAIN task :
       GotGroupName(i) /\ GotGroupName(j) /\ GroupOf(i) = GroupOf(j) =>
          /\ task[i].result.group_name = task[j].result.group_name
          /\ GroupOf(i) \in DOMAIN group_cache
          /\ PyStr(group_cache[GroupOf(i)]) = task[i].result.group_name

(***************************************************************************)
(* The order of the contexts.                                              *)
(***************************************************************************)
\* the input list is in ranking order: no item has a smaller raw distance
\* than an item before it (the order retrieve_similar_tickets gives when
\* adjusted and raw distance agree)
InputRanked ==
    \A p, q \in DOMAIN g_results :
       p < q => SearchDist(g_results[p]) <= SearchDist(g_results[q])

\* C25: for an input list in ranking order, equal distances allowed, the
\* contexts come back in the order of their items in the input list,
\* whatever the order in which the fetches completed.
C25_OrderMatchesInput ==
    Done /\ InputRanked =>
       g_return = [i \in 1..Len(tickets_to_fetch) |-> Owed(i)]

(***************************************************************************)
(* The retry loop of _fetch_ticket_context.                                *)
(***************************************************************************)
\* the fetch of task i has returned or raised
Ended(i) == task[i].st \in {"lookup", "ok", "raised"}

\* C26: a fetch sends at most 3 GET requests for its ticket whatever the
\* responses; before its k-th retry (k = 1, 2) it has waited
\* RATE_LIMIT_SLEEP * k; it never waits after the third attempt, and a
\* third failure makes it raise, not send a fourth request.
C26_ThreeAttemptsLinearBackoff ==
    \A i \in DOMAIN task :
       /\ task[i].gets <= 3
       /\ Len(task[i].slept) <= 2
       /\ \A k \in DOMAIN task[i].slept :
             task[i].slept[k] = RATE_LIMIT_SLEEP * k
       /\ task[i].st = "running" => /\ task[i].gets < 3
                                     /\ Len(task[i].slept) = task[i].gets
       /\ Ended(i) => Len(task[i].slept) = task[i].gets - 1
       /\ task[i].st = "raised" => task[i].gets = 3 /\ ~task[i].got_ok

\* a fetch that raised after a rate limit, an error and a rate limit
C26_Witness ==
    \E i \in DOMAIN task :
       /\ task[i].st = "raised"
       /\ task[i].gets = 3
       /\ task[i].rates = 2
       /\ task[i].slept = <<RATE_LIMIT_SLEEP, 2 * RATE_LIMIT_SLEEP>>

\* every scheduled fetch has ended and the loop has taken its context
AllFetchesCollected ==
    \A i \in DOMAIN task : task[i].st \in {"ok", "raised"} /\ task[i].collected

\* C27: gather_ticket_contexts returns only once every scheduled fetch has
\* completed or failed into its fallback, no fetch takes more than 3
\* attempts whatever the responses, and the call always returns in the end.
C27_ReturnsAfterAllFetches ==
    /\ [](Done => AllFetchesCollected /\ Len(g_return) = Len(task))
    /\ [](\A i \in DOMAIN task : task[i].gets <= FETCH_ATTEMPTS)
    /\ <>Done

\* a return after one fetch used all three attempts and failed
C27_Witness ==
    /\ Done
    /\ Len(task) = 2
    /\ \E i \in DOMAIN task :
          task[i].st = "raised" /\ task[i].gets = FETCH_ATTEMPTS

(***************************************************************************)
(* Properties of annotate_result_with_tokens.                              *)
(***************************************************************************)
Annotated == p_pc = "done"

PathLevels == {"category", "subcategory", "item"}

\* the intent names the level
Specified(level) == Truthy(p_args.intent[level])

\* the result's normalized value at the level is the intent's
Agrees(level) ==
    _normalize_or_none(p_args.metadata[level]) = p_args.intent[level]

\* C28: category_match is true exactly when the intent has a category equal
\* to the result's normalized category and the result agrees at each deeper
\* level the intent specifies; agreement at a shallower level only never
\* gives true, and a level the intent leaves out is not compared.
C28_CategoryMatchFollowsPath ==
    Annotated =>
       /\ p_result.category_match <=>
             /\ Specified("category")
             /\ \A level \in PathLevels : Specified(level) => Agrees(level)
       /\ (\E level \in PathLevels : Specified(level) /\ ~Agrees(level)) =>
             ~p_result.category_match

\* category and subcategory agree, the intent names no item and the result
\* has one: a match
C28_Witness ==
    /\ Annotated
    /\ p_args.intent.category = PyStr("network")
    /\ p_args.intent.subcategory = PyStr("vpn")
    /\ p_args.intent.item = None
    /\ p_args.metadata.item = PyStr("cable")
    /\ p_result.category_match

(***************************************************************************)
(* Properties of the vocabulary cache.                                     *)
(***************************************************************************)
JustCalled == p_pc = "done" /\ p_args # None /\ "path" \in DOMAIN p_args

\* the tokens of the query when the vocabulary is the one of the content
TokensUnder(data) ==
    IntentFrom(VocabularyQuery, None, _load_known_tokens(data)).tokens

\* C29: the vocabulary is loaded once per path: after a load for a path
\* every later call with that path uses the vocabulary of that load, even
\* if the file has changed, until cache_clear; the first call after a
\* cache_clear reads the file as it is then.
C29_LoadedOncePerPath ==
    JustCalled =>
       p_result.tokens = TokensUnder(load_history.first[p_args.path])

\* C29 as it holds: a call uses the vocabulary of the latest load, which
\* was for its own path; the load is not repeated, even if the file has
\* changed, as long as no call with another path and no cache_clear came
\* in between, and after either the next call reads the file as it is then.
C29_CachedUntilClearedOrOtherPath ==
    JustCalled =>
       /\ load_history.last.path = p_args.path
       /\ p_result.tokens = TokensUnder(load_history.last.data)

\* a call answered from the cache although the file now holds another
\* vocabulary
C29_Witness ==
    /\ JustCalled
    /\ p_result.tokens # TokensUnder(categories_json[p_args.path])
    /\ p_result.tokens = TokensUnder(load_history.last.data)

(***************************************************************************)
(* An intent whose category path lacks the category.                       *)
(***************************************************************************)
PathWithoutCategory ==
    /\ ~Truthy(IntentInForce.category)
    /\ Truthy(IntentInForce.subcategory) \/ Truthy(IntentInForce.item)

\* the adjusted distance of a reranked item that carries the category
\* penalty, from the signals attached to it
PenalizedDistance(r) ==
    LET rel == r.meta.relevance.d
        token_term == IF IntentInForce.tokens = {} THEN 0
                      ELSE IF rel.token_match.b THEN 0 - TOKEN_BONUS
                      ELSE TOKEN_PENALTY
        keyword_term == Min(rel.keyword_hits.i, KEYWORD_CAP) * KEYWORD_BONUS
    IN  Max(0, r.dist + CATEGORY_PENALTY + token_term - keyword_term)

\* C30: with an intent that gives a subcategory or item but no category,
\* has_category_path is true and no item gets category_match; every
\* reranked item carries the category penalty; with require_category_match
\* the call returns the empty list, and no query follows the first one that
\* answered with a document under the threshold.
C30_PathWithoutCategoryMatchesNothing ==
    PathWithoutCategory =>
       /\ has_category_path(IntentInForce)
       /\ \A i \in DOMAIN r_reranked :
             /\ ~HasCategoryMatch(r_reranked[i])
             /\ AttachedAdjusted(r_reranked[i]) = PenalizedDistance(r_reranked[i])
       /\ Returned /\ r_args.require_category_match =>
             /\ r_return = <<>>
             /\ \A p \in DOMAIN r_queries :
                   Usable(r_queries[p]) => p = Len(r_queries)

\* the first filter answered with documents under the threshold, they were
\* reranked, none was returned and no other filter was tried, although the
\* collection holds a document only a looser filter finds
C30_Witness ==
    /\ Returned
    /\ PathWithoutCategory
    /\ r_args.require_category_match
    /\ r_reranked # <<>>
    /\ r_return = <<>>
    /\ Len(r_queries) = 1
    /\ \E k \in r_coll \ LastQuery.keys : StoreDist(k) <= ThresholdInForce
====
